---- MODULE Spec2Model ----
(***************************************************************************)
(* A model of tlog's writers (src/writers.go), of the size-bounded         *)
(* rotating file sink (src/rotated/file.go), and of Labels and span        *)
(* creation (src/unnamed/part_000).                                        *)
(*                                                                         *)
(* Bytes are the integers 0..255; a buffer, a payload or a file content is *)
(* a sequence of bytes.  A file name is a sequence of one-character        *)
(* strings.                                                                *)
(***************************************************************************)
EXTENDS Integers, Sequences, FiniteSets, TLC

VARIABLES
    \* ---- rotated.File (src/rotated/file.go)
    rfName,     \* File.name: the name template; <<>> before Create
    rfF,        \* File.f: the name of the open file, NoFile when nil
    rfNbytes,   \* File.nbytes
    rfDisk,     \* the files created so far, in creation order: [name, data]
    rfClock,    \* the value now() returns
    rfCalls,    \* the number of Write calls made
    rfAccepted, \* the bytes the files accepted, in the order of the calls
    rfAllOk,    \* every Write call so far returned a nil error
    rfAllFit,   \* every payload so far had len(p) <= MaxSize
    rfLast      \* the last call: its arguments, its result, its writes on Fallback

rotVars == <<rfName, rfF, rfNbytes, rfDisk, rfClock, rfCalls, rfAccepted, rfAllOk,
             rfAllFit, rfLast>>

VARIABLES
    \* ---- FallbackWriter{Writer, Fallback} over two recording writers
    fbPrimary,  \* the calls FallbackWriter.Writer received: [ev, err]
    fbFallback, \* the calls FallbackWriter.Fallback received: [ev, err]
    fbRets,     \* what each FallbackWriter operation returned, in call order
    \* ---- TeeWriter over recording writers
    teeWs,      \* the TeeWriter value NewTeeWriter returned; <<>> before
    teeBuilt,   \* NewTeeWriter was called
    teeGiven,   \* the arguments NewTeeWriter was called with
    teeLast     \* the last operation: its event, the calls it made, its result

fbVars == <<fbPrimary, fbFallback, fbRets>>
teeVars == <<teeWs, teeBuilt, teeGiven, teeLast>>

VARIABLES
    \* ---- one encoder (ConsoleWriter, JSONWriter or ProtoWriter) over a sink
    encKind,     \* "none" before construction, then "console", "json" or "proto"
    encF,        \* ConsoleWriter.f: the flags that are set
    encLs,       \* JSONWriter.ls / ProtoWriter.ls: the locations marked as written
    encBuf,      \* the writer's buf between operations
    encLast,     \* the last operation: its event, the payloads it handed to
                 \* Write, the sink's answer, the value of ls before it
    encGiven,    \* the non-zero locations of the Message and SpanStarted events
                 \* given to a JSONWriter or ProtoWriter
    encLocCount, \* per location: location records handed to the sink (up to 2)
    encEarly,    \* locations an event record referred to before their record
    encFailed    \* locations whose record was in a Write the sink refused

encVars == <<encKind, encF, encLs, encBuf, encLast, encGiven, encLocCount, encEarly,
             encFailed>>

VARIABLES
    \* ---- LockedWriter over a JSONWriter or a TeeWriter{A, B}, two producers
    lkInner,     \* "none" before construction, then "json" or "tee"
    lkMu,        \* LockedWriter.mu: Free or the producer that holds it
    lkPc,        \* per producer: "idle", "inner" (inside w.w) or "unlock"
    lkEv,        \* per producer: the event of its current call
    lkStep,      \* per producer: the steps of the inner operation done so far
    lkLen,       \* per producer: len(b) of the slice the inner operation fills
    lkErr,       \* per producer: err of its current call
    lkSeq,       \* per producer: the number of calls it has made
    lkArr,       \* the array of JSONWriter.buf, shared by all operations
    lkSink,      \* what the JSONWriter's sink was handed: [ev, payload]
    lkA,         \* the events recording writer A received
    lkB          \* the events recording writer B received

lkVars == <<lkInner, lkMu, lkPc, lkEv, lkStep, lkLen, lkErr, lkSeq, lkArr, lkSink, lkA, lkB>>

VARIABLES
    \* ---- one Labels value
    lbLs,           \* the list
    lbHist,         \* per key: the last operation on it
    lbFirst,        \* the keys in the order of their first Set
    lbEx,           \* how far the run followed the documented example
    lbLast          \* the last operation, its arguments and its result

lbVars == <<lbLs, lbHist, lbFirst, lbEx, lbLast>>

VARIABLES
    \* ---- a Logger and the spans made through it
    spL,            \* TRUE when the logger is not nil
    spSpans,        \* the spans newspan has made, oldest first
    spLast          \* the last call and what it returned

spVars == <<spL, spSpans, spLast>>

VARIABLES
    \* ---- the varint codec applied to one value
    viV,            \* the uint64 value
    viLast          \* the last function applied and its result

viVars == <<viV, viLast>>

vars == <<rotVars, fbVars, teeVars, encVars, lkVars, lbVars, spVars, viVars>>
otherThanRot == <<fbVars, teeVars, encVars, lkVars, lbVars, spVars, viVars>>
otherThanFb == <<rotVars, teeVars, encVars, lkVars, lbVars, spVars, viVars>>
otherThanTee == <<rotVars, fbVars, encVars, lkVars, lbVars, spVars, viVars>>
otherThanEnc == <<rotVars, fbVars, teeVars, lkVars, lbVars, spVars, viVars>>
otherThanLocked == <<rotVars, fbVars, teeVars, encVars, lbVars, spVars, viVars>>
otherThanLabels == <<rotVars, fbVars, teeVars, encVars, lkVars, spVars, viVars>>
otherThanSpans == <<rotVars, fbVars, teeVars, encVars, lkVars, lbVars, viVars>>
otherThanVarint == <<rotVars, fbVars, teeVars, encVars, lkVars, lbVars, spVars>>

(***************************************************************************)
(* Generic helpers                                                         *)
(***************************************************************************)
RECURSIVE Concat(_)
Concat(ss) == IF ss = <<>> THEN <<>> ELSE Head(ss) \o Concat(Tail(ss))

Take(s, n) == SubSeq(s, 1, n)
Drop(s, n) == SubSeq(s, n + 1, Len(s))
Range(s) == {s[i] : i \in 1..Len(s)}
Min(a, b) == IF a < b THEN a ELSE b

(***************************************************************************)
(* Bytes, 64-bit values and the varint codec of src/writers.go             *)
(*                                                                         *)
(* A uint64 is its eight bytes, least significant first, so that values up *)
(* to 2^64-1 stay within the integers the model checker handles.           *)
(***************************************************************************)
Pow2 == <<1, 2, 4, 8, 16, 32, 64, 128, 256>>
Pow256 == <<1, 256, 65536, 16777216>>

\* uint64(n) for an int 0 <= n < 2^31
FromInt(n) == [i \in 1..8 |-> IF i <= 4 THEN (n \div Pow256[i]) % 256 ELSE 0]

ByteAt(v, i) == IF i <= 7 THEN v[i + 1] ELSE 0

\* byte(v >> s): the eight bits of v from bit s on
ShiftByte(v, s) ==
    LET i == s \div 8
        r == s % 8
    IN ((ByteAt(v, i) \div Pow2[r + 1]) + (ByteAt(v, i + 1) * Pow2[9 - r])) % 256

\* byte(v>>s | 0x80)
ShiftByteCont(v, s) == (ShiftByte(v, s) % 128) + 128

\* v < 1<<k, for 0 < k < 64
Below(v, k) ==
    \A j \in 0..7 :
        /\ j > k \div 8 => v[j + 1] = 0
        /\ j = k \div 8 => v[j + 1] < Pow2[(k % 8) + 1]

\* The bytes each case of the switch appends: n-1 bytes byte(v>>7j|0x80) and
\* byte(v>>7(n-1)), for n in 1..9.
VarintCase(v, n) ==
    [j \in 1..n |-> IF j < n THEN ShiftByteCont(v, 7 * (j - 1)) ELSE ShiftByte(v, 7 * (j - 1))]

\* The default case: byte(v>>56) carries no "|0x80" in the source.
VarintDefault(v) ==
    [j \in 1..10 |-> IF j <= 8 THEN ShiftByteCont(v, 7 * (j - 1))
                     ELSE IF j = 9 THEN ShiftByte(v, 56) ELSE ShiftByte(v, 63)]

\* (mutant) the length of a varint is always one byte
varintSizeOne(v) == 1

varintSize(v) ==
    CASE Below(v, 7) -> 1
      [] Below(v, 14) -> 2
      [] Below(v, 21) -> 3
      [] Below(v, 28) -> 4
      [] Below(v, 35) -> 5
      [] Below(v, 42) -> 6
      [] Below(v, 49) -> 7
      [] Below(v, 56) -> 8
      [] Below(v, 63) -> 9
      [] OTHER -> 10

appendVarint(b, v) ==
    CASE Below(v, 7) -> b \o VarintCase(v, 1)
      [] Below(v, 14) -> b \o VarintCase(v, 2)
      [] Below(v, 21) -> b \o VarintCase(v, 3)
      [] Below(v, 28) -> b \o VarintCase(v, 4)
      [] Below(v, 35) -> b \o VarintCase(v, 5)
      [] Below(v, 42) -> b \o VarintCase(v, 6)
      [] Below(v, 49) -> b \o VarintCase(v, 7)
      [] Below(v, 56) -> b \o VarintCase(v, 8)
      [] Below(v, 63) -> b \o VarintCase(v, 9)
      [] OTHER -> b \o VarintDefault(v)

appendTagVarint(b, t, v) ==
    CASE Below(v, 7) -> b \o <<t>> \o VarintCase(v, 1)
      [] Below(v, 14) -> b \o <<t>> \o VarintCase(v, 2)
      [] Below(v, 21) -> b \o <<t>> \o VarintCase(v, 3)
      [] Below(v, 28) -> b \o <<t>> \o VarintCase(v, 4)
      [] Below(v, 35) -> b \o <<t>> \o VarintCase(v, 5)
      [] Below(v, 42) -> b \o <<t>> \o VarintCase(v, 6)
      [] Below(v, 49) -> b \o <<t>> \o VarintCase(v, 7)
      [] Below(v, 56) -> b \o <<t>> \o VarintCase(v, 8)
      [] Below(v, 63) -> b \o <<t>> \o VarintCase(v, 9)
      [] OTHER -> b \o <<t>> \o VarintDefault(v)

\* tag bytes: field<<3 | wire type
Tag(field, wire) == field * 8 + wire

\* binary.LittleEndian.PutUint64 of a uint64
PutUint64(v) == v

\* strconv.AppendInt(b, n, 10): the decimal digits of n in ASCII
RECURSIVE Digits(_)
Digits(n) == IF n < 10 THEN <<48 + n>> ELSE Digits(n \div 10) \o <<48 + (n % 10)>>
AppendInt(b, n) == IF n < 0 THEN b \o <<45>> \o Digits(0 - n) ELSE b \o Digits(n)

(***************************************************************************)
(* rotated.File                                                            *)
(***************************************************************************)
\* Bounds of the rotating sink's model.
MaxSize == 2        \* File.MaxSize as configured for the runs
MaxWrites == 3      \* Write calls per run

\* The values now() takes.
Times == {0, 1}

NoFile == <<>>
NoErr == "nil"
ErrExist == "EEXIST"
ErrOpen == "EACCES"
ErrWrite == "EIO"
ErrClose == "ECLOSE"

Templates == { <<"l", "#", ".", "t">>, <<"d", ".", "x", "/", "l">> }

\* now.Format(timeFormat): one token per clock value, sorting by time.
TimeTokens == <<"T0", "T1">>
TimeFormat(ts) == << TimeTokens[ts + 1] >>

\* fmt.Sprintf("%x", try) for try in 1..10
HexDigits == <<"1", "2", "3", "4", "5", "6", "7", "8", "9", "a">>

\* strings.LastIndexByte(name, c), 0-based, -1 when absent
LastIndexByte(name, c) ==
    LET ps == {i \in 1..Len(name) : name[i] = c}
    IN IF ps = {} THEN -1 ELSE (CHOOSE i \in ps : \A j \in ps : j <= i) - 1

\* filepath.Ext(name): the suffix from the last dot of the last path element
Ext(name) ==
    LET seps == {i \in 1..Len(name) : name[i] = "/"}
        from == IF seps = {} THEN 0 ELSE CHOOSE i \in seps : \A j \in seps : j <= i
        dots == {i \in (from + 1)..Len(name) : name[i] = "."}
    IN IF dots = {} THEN <<>>
       ELSE SubSeq(name, CHOOSE i \in dots : \A j \in dots : j <= i, Len(name))

\* (mutant) the try number is left out of the name
fnamePlain(name, now, try) ==
    LET p == LastIndexByte(name, "#")
        ext == Ext(name)
        base == Take(name, Len(name) - Len(ext))
    IN IF p # -1
       THEN Take(name, p) \o TimeFormat(now) \o Drop(name, p + 1)
       ELSE base \o <<"_">> \o TimeFormat(now) \o ext

fname(name, now, try) ==
    LET uniq == TimeFormat(now) \o (IF try # 0 THEN <<"_", HexDigits[try]>> ELSE <<>>)
        p == LastIndexByte(name, "#")
        ext == Ext(name)
        base == Take(name, Len(name) - Len(ext))
    IN IF p # -1
       THEN Take(name, p) \o uniq \o Drop(name, p + 1)
       ELSE base \o <<"_">> \o uniq \o ext

DiskNames(disk) == {disk[i].name : i \in 1..Len(disk)}

\* fopen(name): O_WRONLY|O_CREATE|O_APPEND|O_EXCL.  openErr is the
\* environment's answer for a name that does not exist yet.
fopen(disk, name, openErr) ==
    IF name \in DiskNames(disk) THEN [f |-> NoFile, err |-> ErrExist, disk |-> disk]
    ELSE IF openErr # NoErr THEN [f |-> NoFile, err |-> openErr, disk |-> disk]
    ELSE [f |-> name, err |-> NoErr, disk |-> Append(disk, [name |-> name, data |-> <<>>])]

\* the loop of rotate(): "again: ... goto again"
RECURSIVE rotateTry(_, _, _, _, _)
rotateTry(disk, name, now, try, openErr) ==
    LET r == fopen(disk, fname(name, now, try), openErr)
    IN IF r.err = ErrExist /\ try < 10
       THEN rotateTry(disk, name, now, try + 1, openErr)
       ELSE [f |-> r.f, err |-> r.err, disk |-> r.disk, try |-> try]

\* (mutant) the message is never written
fallbackTagOnly(fb, r, err, msg) == Append(fb, <<r, err>>)

\* fallback(w, r, err, msg): the writes made on File.Fallback
fallback(fb, r, err, msg) ==
    IF msg = <<>> THEN Append(fb, <<r, err>>)
    ELSE Append(Append(fb, <<r, err>>), msg)

\* (mutant) a close error ends the rotation and is returned
rotateStopOnClose(f, disk, name, fb, now, closeErr, openErr) ==
    LET r == rotateTry(disk, name, now, 0, openErr)
    IN IF f # NoFile /\ closeErr # NoErr
       THEN [f |-> f, err |-> closeErr, disk |-> disk,
             fb |-> fallback(fb, "CLOSE FAILED", closeErr, <<>>), try |-> 0,
             closed |-> TRUE, closeFailed |-> TRUE]
       ELSE [f |-> r.f, err |-> r.err, disk |-> r.disk, fb |-> fb, try |-> r.try,
             closed |-> f # NoFile, closeFailed |-> FALSE]

\* File.rotate(): closes the open file (a close error is reported only),
\* then opens the first free name.
rotate(f, disk, name, fb, now, closeErr, openErr) ==
    LET fb1 == IF f # NoFile /\ closeErr # NoErr
               THEN fallback(fb, "CLOSE FAILED", closeErr, <<>>)
               ELSE fb
        r == rotateTry(disk, name, now, 0, openErr)
    IN [f |-> r.f, err |-> r.err, disk |-> r.disk, fb |-> fb1, try |-> r.try,
        closed |-> f # NoFile, closeFailed |-> f # NoFile /\ closeErr # NoErr]

\* (mutant) the size is not looked at: only a missing file rotates
NeedRotateNoSize(f, nbytes, p) == f = NoFile

\* The condition of File.Write's first line.
NeedRotate(f, nbytes, p) == f = NoFile \/ nbytes + Len(p) > MaxSize

\* w.f.Write(p): the first n bytes of p reach the file; n < len(p) is an error
FileAppend(disk, f, p, n) ==
    [i \in 1..Len(disk) |->
        IF disk[i].name = f THEN [disk[i] EXCEPT !.data = @ \o Take(p, n)] ELSE disk[i]]

FileData(disk, f) ==
    IF f = NoFile THEN <<>>
    ELSE LET i == CHOOSE j \in 1..Len(disk) : disk[j].name = f IN disk[i].data

\* The payload of the k-th Write call: len bytes, each the call's number, so
\* that every byte on disk tells which call it came from.
Payload(k, len) == [i \in 1..len |-> k]

RotLast(op, p, n, err, rotated, fBefore, sizeBefore, fb, closeFailed) ==
    [op |-> op, p |-> p, n |-> n, err |-> err, rotated |-> rotated,
     fBefore |-> fBefore, sizeBefore |-> sizeBefore, fb |-> fb,
     closeFailed |-> closeFailed]

InitRot ==
    /\ rfName = <<>>
    /\ rfF = NoFile
    /\ rfNbytes = 0
    /\ rfDisk = <<>>
    /\ rfClock = 0
    /\ rfCalls = 0
    /\ rfAccepted = <<>>
    /\ rfAllOk = TRUE
    /\ rfAllFit = TRUE
    /\ rfLast = RotLast("none", <<>>, 0, NoErr, FALSE, NoFile, 0, <<>>, FALSE)

\* Create(name)
Create(name) ==
    /\ rfName = <<>>
    /\ rfName' = name
    /\ rfLast' = RotLast("Create", <<>>, 0, NoErr, FALSE, NoFile, 0, <<>>, FALSE)
    /\ UNCHANGED <<rfF, rfNbytes, rfDisk, rfClock, rfCalls, rfAccepted, rfAllOk, rfAllFit>>
    /\ UNCHANGED otherThanRot

\* time passes between two calls
Tick ==
    /\ rfName # <<>>
    /\ rfClock + 1 \in Times
    /\ rfClock' = rfClock + 1
    /\ UNCHANGED <<rfName, rfF, rfNbytes, rfDisk, rfCalls, rfAccepted, rfAllOk,
                   rfAllFit, rfLast>>
    /\ UNCHANGED otherThanRot

\* File.Write(p).  closeErr and openErr are the results the operating system
\* gives to Close and to the open of a free name; n is the number of bytes the
\* file accepts (n < len(p) is a write error).
FileWrite(p, closeErr, openErr, n) ==
    /\ rfName # <<>>
    /\ rfCalls < MaxWrites
    /\ \E r \in { IF NeedRotate(rfF, rfNbytes, p)
                  THEN rotate(rfF, rfDisk, rfName, <<>>, rfClock, closeErr, openErr)
                  ELSE [f |-> rfF, err |-> NoErr, disk |-> rfDisk, fb |-> <<>>,
                        try |-> 0, closed |-> FALSE, closeFailed |-> FALSE] } :
       LET need == NeedRotate(rfF, rfNbytes, p)
           werr == IF n < Len(p) THEN ErrWrite ELSE NoErr
           last(k, e, fb) ==
               RotLast("Write", p, k, e, need, rfF, Len(FileData(rfDisk, rfF)), fb,
                       r.closeFailed)
       IN IF r.err # NoErr
          THEN /\ rfF' = r.f
               /\ rfDisk' = r.disk
               /\ rfNbytes' = rfNbytes
               /\ rfAccepted' = rfAccepted
               /\ rfAllOk' = FALSE
               /\ rfLast' = last(0, r.err, fallback(r.fb, "ROTATE FAILED", r.err, p))
          ELSE /\ rfF' = r.f
               /\ rfDisk' = FileAppend(r.disk, r.f, p, n)
               /\ rfNbytes' = IF werr # NoErr THEN rfNbytes ELSE rfNbytes + n
               /\ rfAccepted' = rfAccepted \o Take(p, n)
               /\ rfAllOk' = (rfAllOk /\ werr = NoErr)
               /\ rfLast' = last(n, werr, IF werr # NoErr
                                          THEN fallback(r.fb, "WRITE FAILED", werr, p)
                                          ELSE r.fb)
    /\ rfCalls' = rfCalls + 1
    /\ rfAllFit' = (rfAllFit /\ Len(p) <= MaxSize)
    /\ UNCHANGED <<rfName, rfClock>>
    /\ UNCHANGED otherThanRot

\* (mutant) Close leaves the handle in w.f
FileCloseKeepsHandle(closeErr) ==
    /\ rfName # <<>>
    /\ rfLast' = RotLast("Close", <<>>, 0, IF rfF = NoFile THEN NoErr ELSE closeErr,
                         FALSE, rfF, Len(FileData(rfDisk, rfF)), <<>>, FALSE)
    /\ UNCHANGED <<rfName, rfF, rfNbytes, rfDisk, rfClock, rfCalls, rfAccepted, rfAllOk,
                   rfAllFit>>
    /\ UNCHANGED otherThanRot

\* File.Close()
FileClose(closeErr) ==
    /\ rfName # <<>>
    /\ IF rfF = NoFile
       THEN /\ rfLast' = RotLast("Close", <<>>, 0, NoErr, FALSE, rfF, 0, <<>>, FALSE)
            /\ rfF' = rfF
       ELSE /\ rfLast' = RotLast("Close", <<>>, 0, closeErr, FALSE, rfF,
                                 Len(FileData(rfDisk, rfF)), <<>>, FALSE)
            /\ rfF' = NoFile
    /\ UNCHANGED <<rfName, rfNbytes, rfDisk, rfClock, rfCalls, rfAccepted, rfAllOk,
                   rfAllFit>>
    /\ UNCHANGED otherThanRot

\* The results the operating system may give to a write of len bytes.
Accepts(len) == {0, len - 1, len}

NextRot ==
    \/ \E name \in Templates : Create(name)
    \/ Tick
    \/ \E len \in 1..(MaxSize + 1), closeErr \in {NoErr, ErrClose},
          openErr \in {NoErr, ErrOpen}, n \in 0..(MaxSize + 1) :
          /\ n \in Accepts(len)
          \* an answer of the operating system that the call never asks for is
          \* left at its default
          /\ closeErr # NoErr => rfF # NoFile /\ NeedRotate(rfF, rfNbytes, Payload(0, len))
          /\ openErr # NoErr => n = len /\ NeedRotate(rfF, rfNbytes, Payload(0, len))
          /\ FileWrite(Payload(rfCalls + 1, len), closeErr, openErr, n)
    \/ \E closeErr \in {NoErr, ErrClose} : FileClose(closeErr)

(***************************************************************************)
(* Events: the five operations of the Writer interface with their          *)
(* arguments.  The combinators pass the arguments on untouched, so for     *)
(* them an argument list is one opaque value.                              *)
(***************************************************************************)
Ops == {"Labels", "Message", "Metric", "SpanStarted", "SpanFinished"}
ArgLists == {"args1", "args2"}
Event(op, args) == [op |-> op, args |-> args]

(***************************************************************************)
(* FallbackWriter                                                          *)
(***************************************************************************)
MaxFbCalls == 3     \* FallbackWriter operations per run

ErrPrimary == "primary failed"
ErrFallback == "fallback failed"

\* (mutant) the event is passed to Fallback whatever the primary returned
FallbackForwardAlways(err) == TRUE

\* "if err != nil": whether the event is passed to Fallback
FallbackForward(err) == err # NoErr

\* (mutant) the fallback's result replaces the primary's error
FallbackReturnLast(perr, ferr) == IF perr # NoErr THEN ferr ELSE perr

\* "return": err is the primary's result; the fallback's is assigned to _
FallbackReturn(perr, ferr) == perr

\* One operation of FallbackWriter; perr and ferr are what the two inner
\* writers answer when called.
FallbackOp(op, args, perr, ferr) ==
    /\ Len(fbRets) < MaxFbCalls
    /\ fbPrimary' = Append(fbPrimary, [ev |-> Event(op, args), err |-> perr])
    /\ fbFallback' = IF FallbackForward(perr)
                     THEN Append(fbFallback, [ev |-> Event(op, args), err |-> ferr])
                     ELSE fbFallback
    /\ fbRets' = Append(fbRets, FallbackReturn(perr, ferr))
    /\ UNCHANGED otherThanFb

FallbackLabels(args, perr, ferr) == FallbackOp("Labels", args, perr, ferr)
FallbackMessage(args, perr, ferr) == FallbackOp("Message", args, perr, ferr)
FallbackMetric(args, perr, ferr) == FallbackOp("Metric", args, perr, ferr)
FallbackSpanStarted(args, perr, ferr) == FallbackOp("SpanStarted", args, perr, ferr)
FallbackSpanFinished(args, perr, ferr) == FallbackOp("SpanFinished", args, perr, ferr)

InitFallback ==
    /\ fbPrimary = <<>>
    /\ fbFallback = <<>>
    /\ fbRets = <<>>

NextFallback ==
    \E args \in ArgLists, perr \in {NoErr, ErrPrimary}, ferr \in {NoErr, ErrFallback} :
        \* the fallback answers only when it is called
        /\ ferr # NoErr => perr # NoErr
        /\ \/ FallbackLabels(args, perr, ferr)
           \/ FallbackMessage(args, perr, ferr)
           \/ FallbackMetric(args, perr, ferr)
           \/ FallbackSpanStarted(args, perr, ferr)
           \/ FallbackSpanFinished(args, perr, ferr)

(***************************************************************************)
(* TeeWriter                                                               *)
(***************************************************************************)
\* Writers given to NewTeeWriter: a recording writer, a TeeWriter value, or a
\* pointer to a TeeWriter (both implement Writer).
Leaf(id) == [kind |-> "leaf", id |-> id, ws |-> <<>>]
TeeVal(ws) == [kind |-> "tee", id |-> "", ws |-> ws]
TeePtr(ws) == [kind |-> "teeptr", id |-> "", ws |-> ws]

LeafIds == {"A", "B", "C"}
ErrOf(id) == "failed " \o id

TeeArgs == { <<Leaf("A"), Leaf("B")>>,
             <<Leaf("A"), Leaf("B"), Leaf("C")>>,
             <<TeeVal(<<Leaf("A"), Leaf("B")>>), Leaf("C")>>,
             <<Leaf("C"), TeeVal(<<Leaf("B"), Leaf("A")>>)>>,
             <<Leaf("B")>>,
             <<TeePtr(<<Leaf("A"), Leaf("B")>>), Leaf("C")>>,
             <<TeeVal(<<TeeVal(<<Leaf("A")>>), Leaf("B")>>), Leaf("C")>> }

\* NewTeeWriter(w...): an argument that is a TeeWriter value is replaced by
\* its elements
RECURSIVE NewTeeWriter(_)
NewTeeWriter(w) ==
    IF w = <<>> THEN <<>>
    ELSE (IF Head(w).kind = "tee" THEN Head(w).ws ELSE <<Head(w)>>)
         \o NewTeeWriter(Tail(w))

\* (mutant) the loop ends at the first error
TeeKeepGoingUntilError(err) == err = NoErr

\* "for _, w := range w": the loop goes on whatever err holds
TeeKeepGoing(err) == TRUE

\* "if err == nil { err = e }"
TeeMerge(err, e) == IF err = NoErr THEN e ELSE err

\* The loop of a TeeWriter operation from element i on: acc holds the calls
\* made so far and err.  ans[id] is what recording writer id answers.
RECURSIVE TeeLoop(_, _, _, _, _)
TeeLoop(ws, i, ev, ans, acc) ==
    IF i > Len(ws) \/ ~TeeKeepGoing(acc.err) THEN acc
    ELSE LET w == ws[i]
             r == IF w.kind = "leaf"
                  THEN [calls |-> <<>>, err |-> ans[w.id]]
                  ELSE TeeLoop(w.ws, 1, ev, ans, [calls |-> <<>>, err |-> NoErr])
             call == [w |-> w, ev |-> ev, err |-> r.err, inner |-> r.calls]
         IN TeeLoop(ws, i + 1, ev, ans,
                    [calls |-> Append(acc.calls, call), err |-> TeeMerge(acc.err, r.err)])

TeeOp(op, args, ans) ==
    /\ teeBuilt
    /\ LET r == TeeLoop(teeWs, 1, Event(op, args), ans, [calls |-> <<>>, err |-> NoErr])
       IN teeLast' = [ev |-> Event(op, args), calls |-> r.calls, ret |-> r.err]
    /\ UNCHANGED <<teeWs, teeBuilt, teeGiven>>
    /\ UNCHANGED otherThanTee

TeeLabels(args, ans) == TeeOp("Labels", args, ans)
TeeMessage(args, ans) == TeeOp("Message", args, ans)
TeeMetric(args, ans) == TeeOp("Metric", args, ans)
TeeSpanStarted(args, ans) == TeeOp("SpanStarted", args, ans)
TeeSpanFinished(args, ans) == TeeOp("SpanFinished", args, ans)

TeeNew(w) ==
    /\ ~teeBuilt
    /\ teeWs' = NewTeeWriter(w)
    /\ teeBuilt' = TRUE
    /\ teeGiven' = w
    /\ UNCHANGED teeLast
    /\ UNCHANGED otherThanTee

InitTee ==
    /\ teeWs = <<>>
    /\ teeBuilt = FALSE
    /\ teeGiven = <<>>
    /\ teeLast = [ev |-> Event("none", "none"), calls |-> <<>>, ret |-> NoErr]

\* the answers of the recording writers to one operation
TeeAnswers == [LeafIds -> BOOLEAN]
TeeAns(fails) == [id \in LeafIds |-> IF fails[id] THEN ErrOf(id) ELSE NoErr]

NextTee ==
    \/ \E w \in TeeArgs : TeeNew(w)
    \/ \E args \in ArgLists, fails \in TeeAnswers :
          \/ TeeLabels(args, TeeAns(fails))
          \/ TeeMessage(args, TeeAns(fails))
          \/ TeeMetric(args, TeeAns(fails))
          \/ TeeSpanStarted(args, TeeAns(fails))
          \/ TeeSpanFinished(args, TeeAns(fails))

(***************************************************************************)
(* The encoders of src/writers.go: ConsoleWriter, JSONWriter, ProtoWriter  *)
(*                                                                         *)
(* Text is ASCII: a string of the source is the sequence of its bytes.     *)
(* The collaborators that are not in src/ (ID.FormatTo, appendSafe,        *)
(* AppendPrintf, Location.NameFileLine, Location.Entry) follow spec.md.    *)
(***************************************************************************)
\* ---- span IDs: 16 bytes
ZeroID == [i \in 1..16 |-> 0]
ID1 == <<1, 2, 3, 4, 5, 6, 7, 8, 9, 10, 11, 12, 13, 14, 15, 16>>
ID2 == <<171, 205, 0, 0, 0, 0, 0, 0, 0, 0, 0, 0, 0, 0, 0, 255>>

HexChars == <<48, 49, 50, 51, 52, 53, 54, 55, 56, 57, 97, 98, 99, 100, 101, 102>>
HexByte(x) == <<HexChars[(x \div 16) + 1], HexChars[(x % 16) + 1]>>

\* id.FormatTo(b, 'x'): 32 lowercase hex characters
FormatX(id) == Concat([i \in 1..16 |-> HexByte(id[i])])

\* id.FormatTo(b[i:i+width], 'v'): the leading hex characters that fit the
\* column, underscores for the zero ID
FormatV(id, width) ==
    IF id = ZeroID THEN [i \in 1..width |-> 95] ELSE Take(FormatX(id), width)

\* ---- locations: the call-site resolver
Locations == {0, 1, 300}
NameFileLine(l) ==
    IF l = 1 THEN [name |-> <<109, 97, 105, 110, 46, 102>>, file |-> <<97, 46, 103, 111>>, line |-> 17]
    ELSE IF l = 300 THEN [name |-> <<112, 107, 103, 46, 40, 42, 84, 41, 46, 103>>, file |-> <<100, 47, 98, 34, 99, 46, 103, 111>>, line |-> 200]
    ELSE [name |-> <<>>, file |-> <<>>, line |-> 0]
Entry(l) == IF l = 300 THEN 256 ELSE l

\* appendSafe(b, s): quote, backslash and bytes below 0x20 become \u00XX
SafeByte(c) ==
    IF c = 34 \/ c = 92 \/ c < 32 THEN <<92, 117, 48, 48>> \o HexByte(c) ELSE <<c>>
appendSafe(b, s) == b \o Concat([i \in 1..Len(s) |-> SafeByte(s[i])])

\* ---- messages, labels, metrics given to the writers
NilArgs == <<"nil">>
Msg(loc, time, format, args) == [loc |-> loc, time |-> time, format |-> format, args |-> args]

\* Message.Format with Message.Args
Texts == { [format |-> <<117, 112, 10>>, args |-> NilArgs],
           [format |-> <<97, 10, 98>>, args |-> NilArgs],
           [format |-> <<104, 105, 32, 37, 100>>, args |-> <<"int", 5>>] }
MsgTimes == {1000000000}
Elapsed == {250000, 1230000}
LabelSets == { <<>>, << <<61, 97>>, <<98, 61, 50>> >> }
\* float64 values: their name stands for the number
Floats == {"3", "2.5"}
MetricNames == { <<114, 112, 115>> }

\* strconv.AppendFloat(b, v, 'g', -1, 64)
FloatG(v) == IF v = "3" THEN <<51>> ELSE <<50, 46, 53>>
\* math.Float64bits(v), least significant byte first
Float64bits(v) ==
    IF v = "3" THEN <<0, 0, 0, 0, 0, 0, 8, 64>> ELSE <<0, 0, 0, 0, 0, 0, 4, 64>>
\* fmt's %15.5f
Float15_5(v) ==
    IF v = "3" THEN <<32, 32, 32, 32, 32, 32, 32, 32, 51, 46, 48, 48, 48, 48, 48>> ELSE <<32, 32, 32, 32, 32, 32, 32, 32, 50, 46, 53, 48, 48, 48, 48>>

\* fmt's %q and %v of a list of strings
RECURSIVE JoinQuoted(_)
JoinQuoted(ls) ==
    IF ls = <<>> THEN <<>>
    ELSE <<34>> \o appendSafe(<<>>, Head(ls)) \o <<34>>
         \o (IF Len(ls) > 1 THEN <<32>> ELSE <<>>) \o JoinQuoted(Tail(ls))
RECURSIVE JoinPlain(_)
JoinPlain(ls) ==
    IF ls = <<>> THEN <<>>
    ELSE Head(ls) \o (IF Len(ls) > 1 THEN <<32>> ELSE <<>>) \o JoinPlain(Tail(ls))

\* AppendPrintf(b, format, args...), for the formats the model uses
AppendPrintf(b, format, args) ==
    CASE args[1] = "int" -> b \o <<104, 105, 32>> \o Digits(args[2])
      [] args[1] = "labels" -> b \o <<76, 97, 98, 101, 108, 115, 58, 32, 91>> \o JoinQuoted(args[2]) \o <<93>>
      [] args[1] = "metric" ->
            b \o args[2] \o <<32>> \o Float15_5(args[3]) \o <<32>>
              \o <<91>> \o JoinPlain(args[4]) \o <<93>>

\* time.Duration(el).Seconds()*1000 with two decimals, for whole hundredths
AppendMillis(b, el) ==
    LET h == el \div 10000
    IN b \o Digits(h \div 100) \o <<46>> \o <<48 + ((h \div 10) % 10), 48 + (h % 10)>>

(***************************************************************************)
(* ConsoleWriter.  The model covers the flags Lspans and Lmessagespan; the *)
(* flags that select header columns are off, and buildHeader then leaves   *)
(* the buffer empty.                                                       *)
(***************************************************************************)
IDWidth == 16
ConsoleFlags == SUBSET {"Lspans", "Lmessagespan"}

\* (mutant) no line break is appended
NewLineNever(b) == b

\* bufWriter.NewLine
NewLine(b) == IF Len(b) = 0 \/ b[Len(b)] # 10 THEN b \o <<10>> ELSE b

\* buildHeader: b := w.buf[:0], no column appended
buildHeader(f, loc, ts) == <<>>

\* Every encoder operation yields the writer's new fields and the payloads it
\* passed to w.w.Write, in order.
EncResult(buf, ls, writes) == [buf |-> buf, ls |-> ls, writes |-> writes]

ConsoleMessage(f, m, sid) ==
    LET b0 == buildHeader(f, m.loc, m.time)
        b1 == IF "Lmessagespan" \in f THEN b0 \o FormatV(sid, IDWidth) \o <<32, 32>> ELSE b0
        b2 == IF m.args # NilArgs THEN AppendPrintf(b1, m.format, m.args)
              ELSE b1 \o m.format
        b3 == NewLine(b2)
    IN EncResult(b3, {}, <<b3>>)

spanHeader(f, sid, par, loc, tm) ==
    buildHeader(f, loc, tm) \o FormatV(sid, IDWidth) \o <<32, 32>>

\* "w.f&Lspans == 0" returns before anything is written
ConsoleSpansOn(f) == "Lspans" \in f

ConsoleSpanStarted(buf, f, sid, par, st, l) ==
    IF ~ConsoleSpansOn(f) THEN EncResult(buf, {}, <<>>)
    ELSE LET h == spanHeader(f, sid, par, l, st)
             b == IF par = ZeroID THEN h \o <<83, 112, 97, 110, 32, 115, 116, 97, 114, 116, 101, 100, 10>>
                  ELSE h \o <<83, 112, 97, 110, 32, 115, 112, 97, 119, 110, 101, 100, 32, 102, 114, 111, 109, 32>> \o FormatV(par, IDWidth) \o <<10>>
         IN EncResult(b, {}, <<b>>)

ConsoleSpanFinished(buf, f, sid, el, now) ==
    IF ~ConsoleSpansOn(f) THEN EncResult(buf, {}, <<>>)
    ELSE LET h == spanHeader(f, sid, ZeroID, 0, now)
             b == AppendMillis(h \o <<83, 112, 97, 110, 32, 102, 105, 110, 105, 115, 104, 101, 100, 32, 45, 32, 101, 108, 97, 112, 115, 101, 100, 32>>, el) \o <<109, 115, 10>>
         IN EncResult(b, {}, <<b>>)

ConsoleLabels(f, ls, sid, caller, now) ==
    ConsoleMessage(f, Msg(caller, now, <<76, 97, 98, 101, 108, 115, 58, 32, 37, 113>>, <<"labels", ls>>), sid)

ConsoleMetric(f, name, value, labels, sid, caller, now) ==
    ConsoleMessage(f, Msg(caller, now, <<37, 118, 32, 37, 49, 53, 46, 53, 102, 32, 37, 118>>,
                          <<"metric", name, value, labels>>), sid)

(***************************************************************************)
(* JSONWriter                                                              *)
(***************************************************************************)
\* `"s":"` + the 32 hex characters of sid + `",`
JSONSid(b, sid) ==
    IF sid # ZeroID THEN b \o <<34, 115, 34, 58, 34>> \o FormatX(sid) \o <<34, 44>> ELSE b

JSONLabelList(b, ls) ==
    b \o Concat([i \in 1..Len(ls) |->
                    (IF i = 1 THEN <<34>> ELSE <<44, 34>>) \o appendSafe(<<>>, ls[i]) \o <<34>>])

\* JSONWriter.location(l): appends the location record to w.buf and adds l
\* to w.ls; nothing for the zero location
JSONlocation(buf, ls, l) ==
    IF l = 0 THEN [buf |-> buf, ls |-> ls]
    ELSE LET nfl == NameFileLine(l)
             b1 == AppendInt(buf \o <<123, 34, 108, 34, 58, 123, 34, 112, 34, 58>>, l)
             b2 == AppendInt(b1 \o <<44, 34, 101, 34, 58>>, Entry(l))
             b3 == appendSafe(b2 \o <<44, 34, 102, 34, 58, 34>>, nfl.file)
             b4 == AppendInt(b3 \o <<34, 44, 34, 108, 34, 58>>, nfl.line)
             b5 == appendSafe(b4 \o <<44, 34, 110, 34, 58, 34>>, nfl.name)
         IN [buf |-> b5 \o <<34, 125, 125, 10>>, ls |-> ls \cup {l}]

\* (mutant) the location record is built for every event, seen or not
JSONNeedLocationAlways(ls, l) == TRUE

\* "if _, ok := w.ls[loc]; !ok"
JSONNeedLocation(ls, l) == l \notin ls

\* (mutant) w.buf keeps the bytes of the payload
JSONLabelsKeepsBuf(buf, ls, lbls, sid) ==
    LET b1 == JSONSid(buf \o <<123, 34, 76, 34, 58, 123>>, sid)
        b2 == JSONLabelList(b1 \o <<34, 76, 34, 58, 91>>, lbls)
        b == b2 \o <<93, 125, 125, 10>>
    IN EncResult(b, ls, <<b>>)

JSONLabels(buf, ls, lbls, sid) ==
    LET b1 == JSONSid(buf \o <<123, 34, 76, 34, 58, 123>>, sid)
        b2 == JSONLabelList(b1 \o <<34, 76, 34, 58, 91>>, lbls)
        b == b2 \o <<93, 125, 125, 10>>
    IN EncResult(<<>>, ls, <<b>>)

JSONMessage(buf, ls, m, sid) ==
    LET w1 == IF JSONNeedLocation(ls, m.loc) THEN JSONlocation(buf, ls, m.loc)
              ELSE [buf |-> buf, ls |-> ls]
        b1 == JSONSid(w1.buf \o <<123, 34, 109, 34, 58, 123>>, sid)
        b2 == AppendInt(b1 \o <<34, 116, 34, 58>>, m.time)
        b3 == IF m.loc # 0 THEN AppendInt(b2 \o <<44, 34, 108, 34, 58>>, m.loc) ELSE b2
        b4 == IF m.args # NilArgs THEN AppendPrintf(b3 \o <<44, 34, 109, 34, 58, 34>>, m.format, m.args)
              ELSE b3 \o <<44, 34, 109, 34, 58, 34>> \o m.format
        b == b4 \o <<34, 125, 125, 10>>
    IN EncResult(<<>>, w1.ls, <<b>>)

JSONMetric(buf, ls, name, value, labels, sid) ==
    LET b1 == JSONSid(buf \o <<123, 34, 118, 34, 58, 123>>, sid)
        b2 == appendSafe(b1 \o <<34, 110, 34, 58, 34>>, name)
        b3 == b2 \o <<34, 44, 34, 118, 34, 58>> \o FloatG(value)
        b4 == IF Len(labels) # 0
              THEN b3 \o <<44, 34, 76, 34, 58, 91>>
                      \o Concat([i \in 1..Len(labels) |->
                            (IF i # 1 THEN <<44>> ELSE <<>>) \o <<34>>
                            \o appendSafe(<<>>, labels[i]) \o <<34>>])
                      \o <<93>>
              ELSE b3
        b == b4 \o <<125, 125, 10>>
    IN EncResult(<<>>, ls, <<b>>)

JSONSpanStarted(buf, ls, sid, par, st, loc) ==
    LET w1 == IF JSONNeedLocation(ls, loc) THEN JSONlocation(buf, ls, loc)
              ELSE [buf |-> buf, ls |-> ls]
        b1 == w1.buf \o <<123, 34, 115, 34, 58, 123, 34, 105, 34, 58, 34>> \o FormatX(sid) \o <<34>>
        b2 == AppendInt(b1 \o <<44, 34, 115, 34, 58>>, st)
        b3 == AppendInt(b2 \o <<44, 34, 108, 34, 58>>, loc)
        b4 == IF par # ZeroID THEN b3 \o <<44, 34, 112, 34, 58, 34>> \o FormatX(par) \o <<34>> ELSE b3
        b == b4 \o <<125, 125, 10>>
    IN EncResult(<<>>, w1.ls, <<b>>)

JSONSpanFinished(buf, ls, sid, el) ==
    LET b1 == buf \o <<123, 34, 102, 34, 58, 123, 34, 105, 34, 58, 34>> \o FormatX(sid) \o <<34>>
        b2 == AppendInt(b1 \o <<44, 34, 101, 34, 58>>, el)
        b == b2 \o <<125, 125, 10>>
    IN EncResult(<<>>, ls, <<b>>)

(***************************************************************************)
(* ProtoWriter                                                             *)
(***************************************************************************)
\* "1 + varintSize(uint64(len(x))) + len(x)": a length-delimited field
SizeBytes(x) == 1 + varintSize(FromInt(Len(x))) + Len(x)
\* "1 + varintSize(uint64(n))": a varint field
SizeVarint(n) == 1 + varintSize(FromInt(n))

\* appendTagVarint(b, tag, len(x)) followed by append(b, x...)
AppendBytesField(b, field, x) == appendTagVarint(b, Tag(field, 2), FromInt(Len(x))) \o x

\* append(b, tag, 0 x 8) followed by PutUint64(b[len(b)-8:], v)
AppendFixed64(b, field, v) == b \o <<Tag(field, 1)>> \o PutUint64(v)

\* copy(b[dst:], b[src:src+n]) within one array (indices from 0)
CopyWithin(b, dst, src, n) ==
    [i \in 1..Len(b) |-> IF i > dst /\ i <= dst + n THEN b[src + (i - dst)] ELSE b[i]]

\* h was appended into the array arr from its start; the slice arr[:n]
Reslice(h, arr, n) == h \o SubSeq(arr, Len(h) + 1, n)

\* ProtoWriter.location(l)
Protolocation(buf, ls, l) ==
    IF l = 0 THEN [buf |-> buf, ls |-> ls]
    ELSE LET nfl == NameFileLine(l)
             sz == SizeVarint(l) + SizeVarint(Entry(l)) + SizeBytes(nfl.name)
                   + SizeBytes(nfl.file) + SizeVarint(nfl.line)
             b1 == appendVarint(<<>>, FromInt(1 + varintSize(FromInt(sz)) + sz))
             b2 == appendTagVarint(b1, Tag(2, 2), FromInt(sz))
             b3 == appendTagVarint(b2, Tag(1, 0), FromInt(l))
             b4 == appendTagVarint(b3, Tag(2, 0), FromInt(Entry(l)))
             b5 == AppendBytesField(b4, 3, nfl.name)
             b6 == AppendBytesField(b5, 4, nfl.file)
             b7 == appendTagVarint(b6, Tag(5, 0), FromInt(nfl.line))
         IN [buf |-> b7, ls |-> ls \cup {l}]

\* (mutant) the location record is built for every event, seen or not
ProtoNeedLocationAlways(ls, l) == TRUE

\* "if _, ok := w.ls[loc]; !ok"
ProtoNeedLocation(ls, l) == l \notin ls

\* "for _, l := range ls { sz += 1 + varintSize(uint64(len(l))) + len(l) }"
RECURSIVE LabelsSize(_)
LabelsSize(q) == IF q = <<>> THEN 0 ELSE SizeBytes(Head(q)) + LabelsSize(Tail(q))

\* "for _, l := range ls { appendTagVarint(b, field<<3|2, len(l)); append(b, l...) }"
RECURSIVE AppendLabels(_, _, _)
AppendLabels(b, field, q) ==
    IF q = <<>> THEN b ELSE AppendLabels(AppendBytesField(b, field, Head(q)), field, Tail(q))

ProtoLabels(buf, ls, lbls, sid) ==
    LET sz == (IF sid # ZeroID THEN SizeBytes(sid) ELSE 0) + LabelsSize(lbls)
        szs == varintSize(FromInt(sz))
        b1 == appendVarint(buf, FromInt(1 + szs + sz))
        b2 == appendTagVarint(b1, Tag(1, 2), FromInt(sz))
        b3 == IF sid # ZeroID THEN AppendBytesField(b2, 1, sid) ELSE b2
        b == AppendLabels(b3, 2, lbls)
    IN EncResult(<<>>, ls, <<b>>)

\* ProtoWriter.Message renders the text first at b[st:], moves it to the end
\* of the frame, and then writes the header over b[st:st+total-l].

\* "sz": the size of the sub-message for a text of l bytes
ProtoMessageSize(m, sid, l) ==
    (IF sid # ZeroID THEN SizeBytes(sid) ELSE 0)
    + (IF m.loc # 0 THEN SizeVarint(m.loc) ELSE 0)
    + (1 + 8)
    + (1 + varintSize(FromInt(l)) + l)

\* "total := szss + 1 + szs + sz"
ProtoMessageTotal(sz) ==
    LET szs == varintSize(FromInt(sz))
    IN varintSize(FromInt(1 + szs + sz)) + 1 + szs + sz

\* (mutant) the text is left where it was rendered
ProtoMessageNoMove(t, st, l, total) ==
    t \o [i \in 1..(st + total - Len(t)) |-> 0]

\* "b = b[:st+total]; copy(b[st+total-l:], b[st:st+l])" on the array that holds
\* the text t at b[st:st+l]
ProtoMessageMove(t, st, l, total) ==
    CopyWithin(t \o [i \in 1..(st + total - Len(t)) |-> 0], st + total - l, st, l)

\* the header appended to b[:st]
ProtoMessageHeader(b, sz, m, sid, l) ==
    LET b1 == appendVarint(b, FromInt(1 + varintSize(FromInt(sz)) + sz))
        b2 == appendTagVarint(b1, Tag(3, 2), FromInt(sz))
        b3 == IF sid # ZeroID THEN AppendBytesField(b2, 1, sid) ELSE b2
        b4 == IF m.loc # 0 THEN appendTagVarint(b3, Tag(2, 0), FromInt(m.loc)) ELSE b3
        b5 == AppendFixed64(b4, 3, FromInt(m.time))
    IN appendTagVarint(b5, Tag(4, 2), FromInt(l))

\* the frame built in the array arr, "b = b[:st+total]" after the header
ProtoMessageFrame(arr, st, total, sz, m, sid, l) ==
    Reslice(ProtoMessageHeader(Take(arr, st), sz, m, sid, l), arr, st + total)

\* from the rendered text on: t is w.buf followed by the text
ProtoMessageBuild(t, st, sz, m, sid) ==
    ProtoMessageFrame(ProtoMessageMove(t, st, Len(t) - st, ProtoMessageTotal(sz)),
                      st, ProtoMessageTotal(sz), sz, m, sid, Len(t) - st)

\* w.buf followed by the rendered text
ProtoMessageText(buf, m) ==
    IF m.args # NilArgs THEN AppendPrintf(buf, m.format, m.args) ELSE buf \o m.format

ProtoMessageOn(w1, m, sid) ==
    LET t == ProtoMessageText(w1.buf, m)
    IN EncResult(<<>>, w1.ls,
                 <<ProtoMessageBuild(t, Len(w1.buf),
                                     ProtoMessageSize(m, sid, Len(t) - Len(w1.buf)), m, sid)>>)

ProtoMessage(buf, ls, m, sid) ==
    ProtoMessageOn(IF ProtoNeedLocation(ls, m.loc) THEN Protolocation(buf, ls, m.loc)
                   ELSE [buf |-> buf, ls |-> ls], m, sid)

ProtoMetric(buf, ls, name, value, labels, sid) ==
    LET sz == (IF sid # ZeroID THEN SizeBytes(sid) ELSE 0)
              + SizeBytes(name) + (1 + 8) + LabelsSize(labels)
        szs == varintSize(FromInt(sz))
        b1 == appendVarint(buf, FromInt(1 + szs + sz))
        b2 == appendTagVarint(b1, Tag(6, 2), FromInt(sz))
        b3 == IF sid # ZeroID THEN AppendBytesField(b2, 1, sid) ELSE b2
        b4 == AppendBytesField(b3, 2, name)
        b5 == AppendFixed64(b4, 3, Float64bits(value))
        b == AppendLabels(b5, 4, labels)
    IN EncResult(<<>>, ls, <<b>>)

\* "sz" of ProtoWriter.SpanStarted
ProtoSpanStartedSize(sid, par, loc) ==
    SizeBytes(sid)
    + (IF par # ZeroID THEN SizeBytes(par) ELSE 0)
    + (IF loc # 0 THEN SizeVarint(loc) ELSE 0)
    + (1 + 8)

\* the frame appended to w.buf
ProtoSpanStartedFrame(buf, sz, sid, par, st, loc) ==
    LET b1 == appendVarint(buf, FromInt(1 + varintSize(FromInt(sz)) + sz))
        b2 == appendTagVarint(b1, Tag(4, 2), FromInt(sz))
        b3 == AppendBytesField(b2, 1, sid)
        b4 == IF par # ZeroID THEN AppendBytesField(b3, 2, par) ELSE b3
        b5 == IF loc # 0 THEN appendTagVarint(b4, Tag(3, 0), FromInt(loc)) ELSE b4
    IN AppendFixed64(b5, 4, FromInt(st))

ProtoSpanStartedOn(w1, sid, par, st, loc) ==
    EncResult(<<>>, w1.ls,
              <<ProtoSpanStartedFrame(w1.buf, ProtoSpanStartedSize(sid, par, loc),
                                      sid, par, st, loc)>>)

ProtoSpanStarted(buf, ls, sid, par, st, loc) ==
    ProtoSpanStartedOn(IF ProtoNeedLocation(ls, loc) THEN Protolocation(buf, ls, loc)
                       ELSE [buf |-> buf, ls |-> ls], sid, par, st, loc)

ProtoSpanFinished(buf, ls, sid, el) ==
    LET sz == SizeBytes(sid) + SizeVarint(el)
        szs == varintSize(FromInt(sz))
        b1 == appendVarint(buf, FromInt(1 + szs + sz))
        b2 == appendTagVarint(b1, Tag(5, 2), FromInt(sz))
        b3 == AppendBytesField(b2, 1, sid)
        b == appendTagVarint(b3, Tag(2, 0), FromInt(el))
    IN EncResult(<<>>, ls, <<b>>)

(***************************************************************************)
(* Readers of the two wire formats: what a consumer of the sink's bytes    *)
(* finds in a payload.  A record is [kind, key, loc]: kind "location" or   *)
(* "event", key the JSON key byte or the frame's field number, loc the     *)
(* location the record describes or refers to (0: none).                   *)
(***************************************************************************)
Rec(kind, key, loc) == [kind |-> kind, key |-> key, loc |-> loc]

HasPrefix(s, pre) == Len(s) >= Len(pre) /\ SubSeq(s, 1, Len(pre)) = pre

RECURSIVE ReadInt(_, _, _)
ReadInt(s, i, acc) ==
    IF i <= Len(s) /\ s[i] \in 48..57 THEN ReadInt(s, i + 1, (acc * 10) + (s[i] - 48)) ELSE acc

RECURSIVE SkipDigits(_, _)
SkipDigits(s, i) == IF i <= Len(s) /\ s[i] \in 48..57 THEN SkipDigits(s, i + 1) ELSE i

RECURSIVE SplitLines(_)
SplitLines(p) ==
    IF p = <<>> THEN <<>>
    ELSE LET nl == {i \in 1..Len(p) : p[i] = 10}
             k == IF nl = {} THEN Len(p) + 1 ELSE CHOOSE i \in nl : \A j \in nl : i <= j
         IN <<SubSeq(p, 1, k - 1)>> \o SplitLines(SubSeq(p, k + 1, Len(p)))

\* the optional `"s":"<32 hex>",` member
JSONSkipSid(s) == IF HasPrefix(s, <<34, 115, 34, 58, 34>>) THEN Drop(s, 5 + 32 + 2) ELSE s

\* `,"l":<digits>` after the digits that start at s[i]
JSONLocAfterInt(s, i) ==
    LET r == Drop(s, SkipDigits(s, i) - 1)
    IN IF HasPrefix(r, <<44, 34, 108, 34, 58>>) THEN ReadInt(r, 6, 0) ELSE 0

JSONRecordOf(line) ==
    CASE HasPrefix(line, <<123, 34, 108, 34, 58, 123, 34, 112, 34, 58>>) -> Rec("location", 108, ReadInt(line, 11, 0))
      [] HasPrefix(line, <<123, 34, 109, 34, 58, 123>>) ->
            LET r == JSONSkipSid(Drop(line, 6))
            IN Rec("event", 109, IF HasPrefix(r, <<34, 116, 34, 58>>) THEN JSONLocAfterInt(r, 5) ELSE 0)
      [] HasPrefix(line, <<123, 34, 115, 34, 58, 123, 34, 105, 34, 58, 34>>) ->
            LET r == Drop(line, 11 + 32 + 1)
            IN Rec("event", 115, IF HasPrefix(r, <<44, 34, 115, 34, 58>>) THEN JSONLocAfterInt(r, 6) ELSE 0)
      [] HasPrefix(line, <<123, 34, 76, 34, 58, 123>>) -> Rec("event", 76, 0)
      [] HasPrefix(line, <<123, 34, 118, 34, 58, 123>>) -> Rec("event", 118, 0)
      [] HasPrefix(line, <<123, 34, 102, 34, 58, 123>>) -> Rec("event", 102, 0)
      [] OTHER -> Rec("continued", 0, 0)

\* the records that start in a JSON payload, line by line
JSONRecords(p) ==
    LET lines == SplitLines(p)
    IN SelectSeq([i \in 1..Len(lines) |-> JSONRecordOf(lines[i])],
                 LAMBDA r : r.kind # "continued")

\* a varint at s[i]: its value and the index after it
RECURSIVE DecodeVarint(_, _, _, _)
DecodeVarint(s, i, mult, acc) ==
    IF i > Len(s) THEN [ok |-> FALSE, val |-> 0, next |-> i]
    ELSE IF s[i] >= 128 THEN DecodeVarint(s, i + 1, mult * 128, acc + ((s[i] - 128) * mult))
    ELSE [ok |-> TRUE, val |-> acc + (s[i] * mult), next |-> i + 1]

\* the length-prefixed frames of a payload
RECURSIVE ParseFrames(_)
ParseFrames(s) ==
    IF s = <<>> THEN [ok |-> TRUE, frames |-> <<>>]
    ELSE LET d == DecodeVarint(s, 1, 1, 0)
             end == (d.next - 1) + d.val
         IN IF ~d.ok \/ d.val = 0 \/ end > Len(s) THEN [ok |-> FALSE, frames |-> <<>>]
            ELSE LET rest == ParseFrames(Drop(s, end))
                 IN [ok |-> rest.ok, frames |-> <<SubSeq(s, d.next, end)>> \o rest.frames]

\* the fields of a sub-message: [field, wire, val]
RECURSIVE ParseFields(_)
ParseFields(s) ==
    IF s = <<>> THEN [ok |-> TRUE, fields |-> <<>>]
    ELSE LET field == s[1] \div 8
             wire == s[1] % 8
             d == DecodeVarint(s, 2, 1, 0)
             end == CASE wire = 0 -> d.next - 1
                      [] wire = 1 -> 9
                      [] wire = 2 -> (d.next - 1) + d.val
                      [] OTHER -> Len(s) + 1
             ok == end <= Len(s) /\ (wire = 1 \/ d.ok)
         IN IF ~ok THEN [ok |-> FALSE, fields |-> <<>>]
            ELSE LET rest == ParseFields(Drop(s, end))
                 IN [ok |-> rest.ok,
                     fields |-> <<[field |-> field, wire |-> wire,
                                   val |-> IF wire = 0 THEN d.val ELSE 0]>> \o rest.fields]

\* the varint value of sub-field f, 0 when absent
FieldVarint(fields, f) ==
    LET hit == {i \in 1..Len(fields) : fields[i].field = f /\ fields[i].wire = 0}
    IN IF hit = {} THEN 0 ELSE fields[CHOOSE i \in hit : TRUE].val

\* one frame: tag of the sub-message, its size, its fields
ProtoRecordOf(frame) ==
    LET field == frame[1] \div 8
        d == DecodeVarint(frame, 2, 1, 0)
        sub == ParseFields(Drop(frame, d.next - 1))
        whole == /\ frame[1] % 8 = 2
                 /\ d.ok
                 /\ (d.next - 1) + d.val = Len(frame)
                 /\ sub.ok
    IN IF ~whole THEN Rec("bad", field, 0)
       ELSE CASE field = 2 -> Rec("location", 2, FieldVarint(sub.fields, 1))
              [] field = 3 -> Rec("event", 3, FieldVarint(sub.fields, 2))
              [] field = 4 -> Rec("event", 4, FieldVarint(sub.fields, 3))
              [] OTHER -> Rec("event", field, 0)

ProtoRecords(p) ==
    LET fr == ParseFrames(p).frames
    IN [i \in 1..Len(fr) |-> ProtoRecordOf(fr[i])]

\* the payload is made of whole records only
Complete(kind, p) ==
    IF kind = "proto"
    THEN ParseFrames(p).ok /\ \A i \in 1..Len(ProtoRecords(p)) : ProtoRecords(p)[i].kind # "bad"
    ELSE p # <<>> /\ p[Len(p)] = 10

Records(kind, p) ==
    CASE kind = "json" -> JSONRecords(p)
      [] kind = "proto" -> ProtoRecords(p)
      [] OTHER -> <<Rec("event", 0, 0)>>

\* the number of lines of a text payload
LineCount(p) == Cardinality({i \in 1..Len(p) : p[i] = 10})

(***************************************************************************)
(* One encoder over a sink.  The sink answers each Write with nil or with  *)
(* an error; the bytes it was handed are observed either way.              *)
(***************************************************************************)
ErrSink == "sink error"
IDs == {ZeroID, ID1}
Parents == {ZeroID, ID2}

Ev(op, sid, loc, rest) == [op |-> op, sid |-> sid, loc |-> loc, rest |-> rest]
NoEv == Ev("none", ZeroID, 0, <<>>)

\* the payloads of all writes of one operation, in order
AllRecords(kind, writes) == Concat([i \in 1..Len(writes) |-> Records(kind, writes[i])])

\* the location records of recs for location l
LocRecs(recs, l) == {i \in 1..Len(recs) : recs[i].kind = "location" /\ recs[i].loc = l}

\* the event records of recs that refer to l with no location record for l
\* before them
Early(recs, l, seen) ==
    \E i \in 1..Len(recs) :
        /\ recs[i].kind = "event"
        /\ recs[i].loc = l
        /\ seen = 0
        /\ \A j \in LocRecs(recs, l) : j > i

InitEnc ==
    /\ encKind = "none"
    /\ encF = {}
    /\ encLs = {}
    /\ encBuf = <<>>
    /\ encLast = [ev |-> NoEv, writes |-> <<>>, err |-> NoErr, seen |-> {},
                  sink |-> NoErr, after |-> NoErr]
    /\ encGiven = {}
    /\ encLocCount = [l \in Locations |-> 0]
    /\ encEarly = {}
    /\ encFailed = {}

NewConsoleWriter(f) ==
    /\ encKind = "none"
    /\ encKind' = "console"
    /\ encF' = f
    /\ UNCHANGED <<encLs, encBuf, encLast, encGiven, encLocCount, encEarly, encFailed>>
    /\ UNCHANGED otherThanEnc

NewJSONWriter ==
    /\ encKind = "none"
    /\ encKind' = "json"
    /\ encLs' = {}
    /\ UNCHANGED <<encF, encBuf, encLast, encGiven, encLocCount, encEarly, encFailed>>
    /\ UNCHANGED otherThanEnc

NewProtoWriter ==
    /\ encKind = "none"
    /\ encKind' = "proto"
    /\ encLs' = {}
    /\ UNCHANGED <<encF, encBuf, encLast, encGiven, encLocCount, encEarly, encFailed>>
    /\ UNCHANGED otherThanEnc

\* What an operation leaves behind: r is the encoder's result, werr the
\* sink's answer to its Write.
EncDone(ev, r, werr) ==
    \E recs \in {AllRecords(encKind, r.writes)} :
       /\ r.writes = <<>> => werr = NoErr
       /\ encBuf' = r.buf
       /\ encLs' = r.ls
       \* "_, err = w.w.Write(b); return": the result is the sink's answer;
       \* after is the result of the operation before this one
       /\ encLast' = [ev |-> ev, writes |-> r.writes, err |-> werr, seen |-> encLs,
                      sink |-> werr, after |-> encLast.err]
       /\ encGiven' = IF ev.op \in {"Message", "SpanStarted"} /\ encKind # "console"
                      THEN encGiven \cup ({ev.loc} \ {0}) ELSE encGiven
       /\ encLocCount' = [l \in Locations |->
                            Min(2, encLocCount[l] + Cardinality(LocRecs(recs, l)))]
       /\ encEarly' = encEarly \cup {l \in Locations \ {0} : Early(recs, l, encLocCount[l])}
       /\ encFailed' = IF werr = NoErr THEN encFailed
                       ELSE encFailed \cup {l \in Locations : LocRecs(recs, l) # {}}
       /\ UNCHANGED <<encKind, encF>>
       /\ UNCHANGED otherThanEnc

SinkAnswers == {NoErr, ErrSink}
Messages == {Msg(l, t, x.format, x.args) : l \in Locations, t \in MsgTimes, x \in Texts}

\* The arguments of each operation and the sink's answer are drawn inside the
\* action, after the guard on the encoder that is under test.
EncConsoleLabels ==
    /\ encKind = "console"
    /\ \E ls \in LabelSets, sid \in IDs, caller \in Locations, now \in MsgTimes,
          werr \in SinkAnswers :
          \E r \in {ConsoleLabels(encF, ls, sid, caller, now)} :
             EncDone(Ev("Labels", sid, 0, <<ls>>), r, werr)

EncConsoleMessage ==
    /\ encKind = "console"
    /\ \E m \in Messages, sid \in IDs, werr \in SinkAnswers :
          \E r \in {ConsoleMessage(encF, m, sid)} :
             EncDone(Ev("Message", sid, m.loc, <<m>>), r, werr)

EncConsoleMetric ==
    /\ encKind = "console"
    /\ \E name \in MetricNames, value \in Floats, labels \in LabelSets, sid \in IDs,
          caller \in Locations, now \in MsgTimes, werr \in SinkAnswers :
          \E r \in {ConsoleMetric(encF, name, value, labels, sid, caller, now)} :
             EncDone(Ev("Metric", sid, 0, <<name, value, labels>>), r, werr)

EncConsoleSpanStarted ==
    /\ encKind = "console"
    /\ \E sid \in IDs, par \in Parents, st \in MsgTimes, l \in Locations,
          werr \in SinkAnswers :
          \E r \in {ConsoleSpanStarted(encBuf, encF, sid, par, st, l)} :
             EncDone(Ev("SpanStarted", sid, l, <<par, st>>), r, werr)

EncConsoleSpanFinished ==
    /\ encKind = "console"
    /\ \E sid \in IDs, el \in Elapsed, now \in MsgTimes, werr \in SinkAnswers :
          \E r \in {ConsoleSpanFinished(encBuf, encF, sid, el, now)} :
             EncDone(Ev("SpanFinished", sid, 0, <<el>>), r, werr)

EncJSONLabels ==
    /\ encKind = "json"
    /\ \E ls \in LabelSets, sid \in IDs, werr \in SinkAnswers :
          \E r \in {JSONLabels(encBuf, encLs, ls, sid)} :
             EncDone(Ev("Labels", sid, 0, <<ls>>), r, werr)

EncJSONMessage ==
    /\ encKind = "json"
    /\ \E m \in Messages, sid \in IDs, werr \in SinkAnswers :
          \E r \in {JSONMessage(encBuf, encLs, m, sid)} :
             EncDone(Ev("Message", sid, m.loc, <<m>>), r, werr)

EncJSONMetric ==
    /\ encKind = "json"
    /\ \E name \in MetricNames, value \in Floats, labels \in LabelSets, sid \in IDs,
          werr \in SinkAnswers :
          \E r \in {JSONMetric(encBuf, encLs, name, value, labels, sid)} :
             EncDone(Ev("Metric", sid, 0, <<name, value, labels>>), r, werr)

EncJSONSpanStarted ==
    /\ encKind = "json"
    /\ \E sid \in IDs, par \in Parents, st \in MsgTimes, l \in Locations,
          werr \in SinkAnswers :
          \E r \in {JSONSpanStarted(encBuf, encLs, sid, par, st, l)} :
             EncDone(Ev("SpanStarted", sid, l, <<par, st>>), r, werr)

EncJSONSpanFinished ==
    /\ encKind = "json"
    /\ \E sid \in IDs, el \in Elapsed, werr \in SinkAnswers :
          \E r \in {JSONSpanFinished(encBuf, encLs, sid, el)} :
             EncDone(Ev("SpanFinished", sid, 0, <<el>>), r, werr)

EncProtoLabels ==
    /\ encKind = "proto"
    /\ \E ls \in LabelSets, sid \in IDs, werr \in SinkAnswers :
          \E r \in {ProtoLabels(encBuf, encLs, ls, sid)} :
             EncDone(Ev("Labels", sid, 0, <<ls>>), r, werr)

EncProtoMessage ==
    /\ encKind = "proto"
    /\ \E m \in Messages, sid \in IDs, werr \in SinkAnswers :
          \E r \in {ProtoMessage(encBuf, encLs, m, sid)} :
             EncDone(Ev("Message", sid, m.loc, <<m>>), r, werr)

EncProtoMetric ==
    /\ encKind = "proto"
    /\ \E name \in MetricNames, value \in Floats, labels \in LabelSets, sid \in IDs,
          werr \in SinkAnswers :
          \E r \in {ProtoMetric(encBuf, encLs, name, value, labels, sid)} :
             EncDone(Ev("Metric", sid, 0, <<name, value, labels>>), r, werr)

EncProtoSpanStarted ==
    /\ encKind = "proto"
    /\ \E sid \in IDs, par \in Parents, st \in MsgTimes, l \in Locations,
          werr \in SinkAnswers :
          \E r \in {ProtoSpanStarted(encBuf, encLs, sid, par, st, l)} :
             EncDone(Ev("SpanStarted", sid, l, <<par, st>>), r, werr)

EncProtoSpanFinished ==
    /\ encKind = "proto"
    /\ \E sid \in IDs, el \in Elapsed, werr \in SinkAnswers :
          \E r \in {ProtoSpanFinished(encBuf, encLs, sid, el)} :
             EncDone(Ev("SpanFinished", sid, 0, <<el>>), r, werr)

NextEnc ==
    \/ \E f \in ConsoleFlags : NewConsoleWriter(f)
    \/ NewJSONWriter
    \/ NewProtoWriter
    \/ EncConsoleLabels
    \/ EncConsoleMessage
    \/ EncConsoleMetric
    \/ EncConsoleSpanStarted
    \/ EncConsoleSpanFinished
    \/ EncJSONLabels
    \/ EncJSONMessage
    \/ EncJSONMetric
    \/ EncJSONSpanStarted
    \/ EncJSONSpanFinished
    \/ EncProtoLabels
    \/ EncProtoMessage
    \/ EncProtoMetric
    \/ EncProtoSpanStarted
    \/ EncProtoSpanFinished

(***************************************************************************)
(* LockedWriter{mu, w} called by several producers at once.                *)
(*                                                                         *)
(* The wrapped writer is a JSONWriter, whose operations fill the array of  *)
(* w.buf append by append and hand it to the sink in one Write, or a       *)
(* TeeWriter{A, B} over two recording writers.  Each step below is one     *)
(* step of one producer; the scheduler interleaves them freely.            *)
(***************************************************************************)
MaxLkCalls == 3
Producers == {"p1", "p2"}
Free == "free"
SidOf(p) == IF p = "p1" THEN ID1 ELSE ID2
LkInners == {"json", "tee"}

\* (mutant) Lock returns at once, whoever holds the mutex
CanLockAlways(mu) == TRUE

\* w.mu.Lock() returns only when no one holds the mutex
CanLock(mu) == mu = Free

\* the arguments producer p gives to an operation
LkEvent(p, op, seq) == [op |-> op, by |-> p, seq |-> seq]

\* what the JSONWriter operation of the event writes on an empty w.buf; the
\* events carry no location
LkPayload(ev) ==
    LET sid == SidOf(ev.by)
        r == CASE ev.op = "Labels" -> JSONLabels(<<>>, {}, << <<61, 97>>, <<98, 61, 50>> >>, sid)
               [] ev.op = "Message" ->
                     JSONMessage(<<>>, {}, Msg(0, 1000000000, <<104, 105, 32, 37, 100>>, <<"int", ev.seq>>), sid)
               [] ev.op = "Metric" -> JSONMetric(<<>>, {}, <<114, 112, 115>>, "2.5", <<>>, sid)
               [] ev.op = "SpanStarted" -> JSONSpanStarted(<<>>, {}, sid, ZeroID, 1000000000, 0)
               [] ev.op = "SpanFinished" -> JSONSpanFinished(<<>>, {}, sid, 250000)
    IN r.writes[1]

\* The appends of an operation, taken in LkAppends groups: the bytes the k-th
\* group adds to b.
LkAppends == 2
Chunk(payload, k) ==
    LET sz == Len(payload) \div LkAppends
    IN IF k < LkAppends THEN SubSeq(payload, ((k - 1) * sz) + 1, k * sz)
       ELSE Drop(payload, (k - 1) * sz)

\* append(b, c...) where b is arr[:n] and the array has room: the bytes of c
\* are stored at arr[n:], over whatever was there
AppendInto(arr, n, c) ==
    [i \in 1..(IF n + Len(c) > Len(arr) THEN n + Len(c) ELSE Len(arr)) |->
        IF i > n /\ i <= n + Len(c) THEN c[i - n] ELSE arr[i]]

InitLocked ==
    /\ lkInner = "none"
    /\ lkMu = Free
    /\ lkPc = [p \in Producers |-> "idle"]
    /\ lkEv = [p \in Producers |-> LkEvent(p, "none", 0)]
    /\ lkStep = [p \in Producers |-> 0]
    /\ lkLen = [p \in Producers |-> 0]
    /\ lkErr = [p \in Producers |-> NoErr]
    /\ lkSeq = [p \in Producers |-> 0]
    /\ lkArr = <<>>
    /\ lkSink = <<>>
    /\ lkA = <<>>
    /\ lkB = <<>>

NewLockedWriter(w) ==
    /\ lkInner = "none"
    /\ lkInner' = w
    /\ UNCHANGED <<lkMu, lkPc, lkEv, lkStep, lkLen, lkErr, lkSeq, lkArr, lkSink, lkA, lkB>>
    /\ UNCHANGED otherThanLocked

LkCalls == lkSeq["p1"] + lkSeq["p2"]

\* "w.mu.Lock()" of an operation of producer p, which then enters w.w
LockedOp(p, op) ==
    /\ lkInner # "none"
    /\ lkPc[p] = "idle"
    /\ LkCalls < MaxLkCalls
    /\ CanLock(lkMu)
    /\ lkMu' = p
    /\ lkPc' = [lkPc EXCEPT ![p] = "inner"]
    /\ lkEv' = [lkEv EXCEPT ![p] = LkEvent(p, op, lkSeq[p] + 1)]
    /\ lkSeq' = [lkSeq EXCEPT ![p] = @ + 1]
    /\ lkStep' = [lkStep EXCEPT ![p] = 0]
    /\ lkLen' = [lkLen EXCEPT ![p] = 0]
    /\ lkErr' = [lkErr EXCEPT ![p] = NoErr]
    /\ UNCHANGED <<lkInner, lkArr, lkSink, lkA, lkB>>
    /\ UNCHANGED otherThanLocked

LockedLabels(p) == LockedOp(p, "Labels")
LockedMessage(p) == LockedOp(p, "Message")
LockedMetric(p) == LockedOp(p, "Metric")
LockedSpanStarted(p) == LockedOp(p, "SpanStarted")
LockedSpanFinished(p) == LockedOp(p, "SpanFinished")

\* the JSONWriter operation of p appends its next bytes to b, which starts as
\* w.buf[:0] and shares the array of w.buf
LkJSONAppend(p) ==
    /\ lkInner = "json"
    /\ lkPc[p] = "inner"
    /\ lkStep[p] < LkAppends
    /\ \E c \in {Chunk(LkPayload(lkEv[p]), lkStep[p] + 1)} :
          /\ lkArr' = AppendInto(lkArr, lkLen[p], c)
          /\ lkLen' = [lkLen EXCEPT ![p] = @ + Len(c)]
    /\ lkStep' = [lkStep EXCEPT ![p] = @ + 1]
    /\ UNCHANGED <<lkInner, lkMu, lkPc, lkEv, lkErr, lkSeq, lkSink, lkA, lkB>>
    /\ UNCHANGED otherThanLocked

\* "_, err = w.w.Write(b)": the sink sees the array up to len(b)
LkJSONWrite(p, werr) ==
    /\ lkInner = "json"
    /\ lkPc[p] = "inner"
    /\ lkStep[p] = LkAppends
    /\ lkSink' = Append(lkSink, [ev |-> lkEv[p], payload |-> Take(lkArr, lkLen[p])])
    /\ lkErr' = [lkErr EXCEPT ![p] = werr]
    /\ lkPc' = [lkPc EXCEPT ![p] = "unlock"]
    /\ UNCHANGED <<lkInner, lkMu, lkEv, lkStep, lkLen, lkSeq, lkArr, lkA, lkB>>
    /\ UNCHANGED otherThanLocked

\* one round of the TeeWriter's loop for p: element A, then element B
LkTeeCall(p, e) ==
    /\ lkInner = "tee"
    /\ lkPc[p] = "inner"
    /\ lkStep[p] < 2
    /\ IF lkStep[p] = 0
       THEN lkA' = Append(lkA, lkEv[p]) /\ UNCHANGED lkB
       ELSE lkB' = Append(lkB, lkEv[p]) /\ UNCHANGED lkA
    /\ lkErr' = [lkErr EXCEPT ![p] = TeeMerge(@, e)]
    /\ lkStep' = [lkStep EXCEPT ![p] = IF TeeKeepGoing(e) THEN @ + 1 ELSE 2]
    /\ lkPc' = [lkPc EXCEPT ![p] = IF TeeKeepGoing(e) /\ lkStep[p] = 0 THEN "inner"
                                    ELSE "unlock"]
    /\ UNCHANGED <<lkInner, lkMu, lkEv, lkLen, lkSeq, lkArr, lkSink>>
    /\ UNCHANGED otherThanLocked

\* "w.mu.Unlock(); return"
LockedUnlock(p) ==
    /\ lkPc[p] = "unlock"
    /\ lkMu' = Free
    /\ lkPc' = [lkPc EXCEPT ![p] = "idle"]
    /\ UNCHANGED <<lkInner, lkEv, lkStep, lkLen, lkErr, lkSeq, lkArr, lkSink, lkA, lkB>>
    /\ UNCHANGED otherThanLocked

NextLocked ==
    \/ \E w \in LkInners : NewLockedWriter(w)
    \/ \E p \in Producers :
        \/ LockedLabels(p)
        \/ LockedMessage(p)
        \/ LockedMetric(p)
        \/ LockedSpanStarted(p)
        \/ LockedSpanFinished(p)
        \/ LkJSONAppend(p)
        \/ \E werr \in SinkAnswers : LkJSONWrite(p, werr)
        \/ \E e \in {NoErr, ErrOf("A")} : LkTeeCall(p, e)
        \/ LockedUnlock(p)

(***************************************************************************)
(* Labels: an ordered list of strings "k", "k=v" and "=k"                  *)
(* (src/unnamed/part_000).  A string is a sequence of characters.          *)
(***************************************************************************)
\* The keys and values the operations are called with.  A key is not empty
\* and holds no "="; a value may be empty and may hold "=".
Keys == { <<"a">>, <<"b">>, <<"a", "b">> }
Values == { <<>>, <<"1">>, <<"2">>, <<"=", "b">> }

\* The entries a list given to Merge is made of: bare keys, key-value
\* entries, tombstones and the empty string.
MergeEntries ==
    { <<"a">>, <<"a", "=", "1">>, <<"=", "a">>, <<"b", "=", "2">>, <<"=", "b">>,
      <<"a", "b", "=", "=", "b">>, <<>> }
\* The lists given to Merge: the empty list, every list of one entry, and
\* lists in which a later entry meets the key of an earlier one.
MergeArgs ==
    { <<>> } \cup { <<e>> : e \in MergeEntries } \cup
    { << <<"a", "=", "1">>, <<"=", "a">> >>,
      << <<"=", "a">>, <<"a", "=", "1">> >>,
      << <<"b", "=", "2">>, <<>>, <<"a", "b", "=", "=", "b">>, <<"=", "b">> >>,
      << <<"=", "b">>, <<"a">>, <<"b", "=", "2">> >>,
      << <<"a", "b", "=", "=", "b">>, <<"a", "=", "1">>, <<"b", "=", "2">> >> }

\* l == k || strings.HasPrefix(l, k+"=")
LabelIs(l, k) == l = k \/ HasPrefix(l, k \o <<"=">>)

\* the first index from i on at which the loop of Set returns, 0 when none
RECURSIVE SetAt(_, _, _)
SetAt(ls, k, i) ==
    IF i > Len(ls) THEN 0
    ELSE IF ls[i] = <<"=">> \o k THEN i
    ELSE IF LabelIs(ls[i], k) THEN i
    ELSE SetAt(ls, k, i + 1)

\* (mutant) Set appends without looking for the key
SetAppend(ls, k, v) ==
    Append(ls, k \o (IF v # <<>> THEN <<"=">> \o v ELSE <<>>))

\* (ls *Labels) Set(k, v)
Set(ls, k, v) ==
    LET val == k \o (IF v # <<>> THEN <<"=">> \o v ELSE <<>>)
        i == SetAt(ls, k, 1)
    IN IF i # 0 THEN [ls EXCEPT ![i] = val] ELSE Append(ls, val)

\* (ls *Labels) Get(k): the value and whether the key was found
RECURSIVE GetFrom(_, _, _)
GetFrom(ls, k, i) ==
    IF i > Len(ls) THEN [v |-> <<>>, ok |-> FALSE]
    ELSE IF ls[i] = k THEN [v |-> <<>>, ok |-> TRUE]
    ELSE IF HasPrefix(ls[i], k \o <<"=">>)
         THEN [v |-> Drop(ls[i], Len(k) + 1), ok |-> TRUE]
    ELSE GetFrom(ls, k, i + 1)
Get(ls, k) == GetFrom(ls, k, 1)

\* the loop of Del from index i on: it returns at a tombstone of k and goes
\* on after replacing an entry of k
RECURSIVE DelFrom(_, _, _)
DelFrom(ls, k, i) ==
    IF i > Len(ls) THEN ls
    ELSE IF ls[i] = <<"=">> \o k THEN ls
    ELSE IF LabelIs(ls[i], k)
         THEN DelFrom([ls EXCEPT ![i] = <<"=">> \o k], k, i + 1)
    ELSE DelFrom(ls, k, i + 1)

\* (mutant) Del leaves the list as it is
DelNothing(ls, k) == ls

\* (ls *Labels) Del(k)
Del(ls, k) == DelFrom(ls, k, 1)

\* strings.SplitN(s, "=", 2): one part when s holds no "="
SplitN2(s) ==
    LET ps == {i \in 1..Len(s) : s[i] = "="}
        p == CHOOSE i \in ps : \A j \in ps : i <= j
    IN IF ps = {} THEN << s >> ELSE << Take(s, p - 1), Drop(s, p) >>

\* the loop of Merge from entry i on.  kv[1] of a one-part split is an index
\* out of range: the run-time panics and the loop ends there.
RECURSIVE MergeFrom(_, _, _)
MergeFrom(ls, b, i) ==
    IF i > Len(b) THEN [ls |-> ls, panicked |-> FALSE, done |-> Len(b)]
    ELSE IF b[i] = <<>> THEN MergeFrom(ls, b, i + 1)
    ELSE LET kv == SplitN2(b[i])
         IN IF kv[1] = <<>>
            THEN MergeFrom(Del(ls, kv[2]), b, i + 1)
            ELSE IF Len(kv) < 2
                 THEN [ls |-> ls, panicked |-> TRUE, done |-> i - 1]
                 ELSE MergeFrom(Set(ls, kv[1], kv[2]), b, i + 1)

\* (ls *Labels) Merge(b)
Merge(ls, b) == MergeFrom(ls, b, 1)

\* ---- what the run has done so far, for the claims
NeverSet == [op |-> "none", v |-> <<>>]
WasSet(v) == [op |-> "Set", v |-> v]
WasDel == [op |-> "Del", v |-> <<>>]

\* the key an entry of a Merge argument names, and the operation it asks for
EntryKey(e) == IF e[1] = "=" THEN Tail(e) ELSE SplitN2(e)[1]
EntryOp(e) ==
    IF e[1] = "=" THEN WasDel
    ELSE IF Len(SplitN2(e)) = 2 THEN WasSet(SplitN2(e)[2]) ELSE WasSet(<<>>)

\* the last operation on each key and the keys in the order of their first
\* Set, after the first n entries of b were applied
RECURSIVE HistAfter(_, _, _, _)
HistAfter(h, b, i, n) ==
    IF i > n THEN h
    ELSE IF b[i] = <<>> THEN HistAfter(h, b, i + 1, n)
    ELSE HistAfter([h EXCEPT ![EntryKey(b[i])] = EntryOp(b[i])], b, i + 1, n)
RECURSIVE FirstAfter(_, _, _, _)
FirstAfter(f, b, i, n) ==
    IF i > n THEN f
    ELSE IF b[i] = <<>> \/ b[i][1] = "=" \/ EntryKey(b[i]) \in Range(f)
         THEN FirstAfter(f, b, i + 1, n)
    ELSE FirstAfter(Append(f, EntryKey(b[i])), b, i + 1, n)

\* how far the run has followed Set(a, 1), Set(b, 2), Del(a); -1 when it left it
Example == << <<"Set", <<"a">>, <<"1">>>>, <<"Set", <<"b">>, <<"2">>>>,
              <<"Del", <<"a">>, <<>>>> >>
ExampleStep(ex, call) ==
    IF ex >= 0 /\ ex < Len(Example) /\ Example[ex + 1] = call THEN ex + 1 ELSE -1

LbLast(op, k, v, b, before, res, panicked, was) ==
    [op |-> op, k |-> k, v |-> v, b |-> b, before |-> before, res |-> res,
     panicked |-> panicked, was |-> was]
NoGet == [v |-> <<>>, ok |-> FALSE]

InitLabels ==
    /\ lbLs = <<>>
    /\ lbHist = [k \in Keys |-> NeverSet]
    /\ lbFirst = <<>>
    /\ lbEx = 0
    /\ lbLast = LbLast("none", <<>>, <<>>, <<>>, <<>>, NoGet, FALSE, NeverSet)

LabelsSet ==
    /\ ~lbLast.panicked
    /\ \E k \in Keys, v \in Values :
          /\ lbLs' = Set(lbLs, k, v)
          /\ lbHist' = [lbHist EXCEPT ![k] = WasSet(v)]
          /\ lbFirst' = IF k \in Range(lbFirst) THEN lbFirst ELSE Append(lbFirst, k)
          /\ lbEx' = ExampleStep(lbEx, <<"Set", k, v>>)
          /\ lbLast' = LbLast("Set", k, v, <<>>, <<>>, NoGet, FALSE, lbHist[k])
    /\ UNCHANGED otherThanLabels

LabelsGet ==
    /\ ~lbLast.panicked
    /\ \E k \in Keys :
          lbLast' = LbLast("Get", k, <<>>, <<>>, <<>>, Get(lbLs, k), FALSE, lbHist[k])
    /\ UNCHANGED <<lbLs, lbHist, lbFirst, lbEx>>
    /\ UNCHANGED otherThanLabels

LabelsDel ==
    /\ ~lbLast.panicked
    /\ \E k \in Keys :
          /\ lbLs' = Del(lbLs, k)
          /\ lbHist' = [lbHist EXCEPT ![k] = WasDel]
          /\ lbEx' = ExampleStep(lbEx, <<"Del", k, <<>>>>)
          /\ lbLast' = LbLast("Del", k, <<>>, <<>>, <<>>, NoGet, FALSE, lbHist[k])
    /\ UNCHANGED lbFirst
    /\ UNCHANGED otherThanLabels

LabelsMerge ==
    /\ ~lbLast.panicked
    /\ \E b \in MergeArgs :
          \E r \in { Merge(lbLs, b) } :
             /\ lbLs' = r.ls
             /\ lbHist' = HistAfter(lbHist, b, 1, r.done)
             /\ lbFirst' = FirstAfter(lbFirst, b, 1, r.done)
             /\ lbEx' = -1
             /\ lbLast' = LbLast("Merge", <<>>, <<>>, b, lbLs, NoGet, r.panicked,
                                 NeverSet)
    /\ UNCHANGED otherThanLabels

NextLabels == LabelsSet \/ LabelsGet \/ LabelsDel \/ LabelsMerge

(***************************************************************************)
(* Spans made through Start and Spawn (src/unnamed/part_000).  An ID is an *)
(* int64, kept as its eight bytes, low byte first.                         *)
(***************************************************************************)
MaxSpans == 3       \* spans made per run

\* The values rnd.Int63() may return: 0 .. 2^63 - 1.
Int63Max == <<255, 255, 255, 255, 255, 255, 255, 127>>
Int63s == { FromInt(0), FromInt(1), FromInt(255), FromInt(65536), Int63Max }

NilSpan == [nil |-> TRUE, ID |-> FromInt(0), Parent |-> FromInt(0)]

\* newspan(l, par): the ID is the value of rnd.Int63() as it comes
newspan(par, int63) == [nil |-> FALSE, ID |-> int63, Parent |-> par]

\* (s *Span) SafeID()
SafeID(s) == IF s.nil THEN FromInt(0) ELSE s.ID

InitSpans ==
    /\ spL = FALSE
    /\ spSpans = <<>>
    /\ spLast = [op |-> "none", s |-> NilSpan]

\* New(w)
New ==
    /\ ~spL
    /\ spL' = TRUE
    /\ spLast' = [op |-> "New", s |-> NilSpan]
    /\ UNCHANGED spSpans
    /\ UNCHANGED otherThanSpans

\* (l *Logger) Start()
Start ==
    /\ Len(spSpans) < MaxSpans
    /\ \E int63 \in Int63s :
          IF ~spL
          THEN /\ spLast' = [op |-> "Start", s |-> NilSpan]
               /\ UNCHANGED spSpans
          ELSE /\ spLast' = [op |-> "Start", s |-> newspan(FromInt(0), int63)]
               /\ spSpans' = Append(spSpans, newspan(FromInt(0), int63))
    /\ UNCHANGED spL
    /\ UNCHANGED otherThanSpans

\* (l *Logger) Spawn(id), with the SafeID of no span or of a span made before
Spawn ==
    /\ Len(spSpans) < MaxSpans
    /\ \E int63 \in Int63s, id \in {SafeID(NilSpan)} \cup {SafeID(s) : s \in Range(spSpans)} :
          IF ~spL \/ id = FromInt(0)
          THEN /\ spLast' = [op |-> "Spawn", s |-> NilSpan]
               /\ UNCHANGED spSpans
          ELSE /\ spLast' = [op |-> "Spawn", s |-> newspan(id, int63)]
               /\ spSpans' = Append(spSpans, newspan(id, int63))
    /\ UNCHANGED spL
    /\ UNCHANGED otherThanSpans

NextSpans == New \/ Start \/ Spawn

(***************************************************************************)
(* The varint codec applied to one value                                   *)
(***************************************************************************)
\* 2^e and 2^e - 1 as uint64, for e in 0..63, and 2^64 - 1
TwoTo(e) == [i \in 1..8 |-> IF i - 1 = e \div 8 THEN Pow2[(e % 8) + 1] ELSE 0]
TwoToLess1(e) ==
    [i \in 1..8 |-> IF i - 1 < e \div 8 THEN 255
                    ELSE IF i - 1 = e \div 8 THEN Pow2[(e % 8) + 1] - 1 ELSE 0]
AllOnes == [i \in 1..8 |-> 255]

\* The values the codec is applied to: every power of two and its
\* predecessor, the largest value, and values with mixed bits.
VarintInputs ==
    { TwoTo(e) : e \in 0..63 } \cup { TwoToLess1(e) : e \in 0..63 } \cup
    { AllOnes, FromInt(300), FromInt(250000),
      <<1, 2, 3, 4, 5, 6, 7, 8>>, <<170, 170, 170, 170, 170, 170, 170, 170>>,
      <<85, 85, 85, 85, 85, 85, 85, 85>>, <<0, 0, 0, 128, 0, 0, 0, 128>>,
      <<255, 0, 255, 0, 255, 0, 255, 0>> }

\* The buffers appended to and the tag bytes.
VarintPrefixes == { <<>>, <<7, 128>> }
VarintTags == { Tag(1, 0), Tag(5, 2), 255 }

ViLast(op, b, t, n, out) == [op |-> op, b |-> b, t |-> t, n |-> n, out |-> out]

InitVarint ==
    /\ viV = FromInt(0)
    /\ viLast = ViLast("none", <<>>, 0, 0, <<>>)

ApplyVarintSize ==
    /\ viLast' = ViLast("varintSize", <<>>, 0, varintSize(viV), <<>>)
    /\ UNCHANGED viV
    /\ UNCHANGED otherThanVarint

ApplyAppendVarint ==
    /\ \E b \in VarintPrefixes :
          viLast' = ViLast("appendVarint", b, 0, 0, appendVarint(b, viV))
    /\ UNCHANGED viV
    /\ UNCHANGED otherThanVarint

ApplyAppendTagVarint ==
    /\ \E b \in VarintPrefixes, t \in VarintTags :
          viLast' = ViLast("appendTagVarint", b, t, 0, appendTagVarint(b, t, viV))
    /\ UNCHANGED viV
    /\ UNCHANGED otherThanVarint

NextVarint == ApplyVarintSize \/ ApplyAppendVarint \/ ApplyAppendTagVarint

Init == InitRot /\ InitFallback /\ InitTee /\ InitEnc /\ InitLocked
        /\ InitLabels /\ InitSpans /\ InitVarint

SpecRot == Init /\ [][NextRot]_vars
SpecFallback == Init /\ [][NextFallback]_vars
SpecTee == Init /\ [][NextTee]_vars
Spec == Init /\ [][NextEnc]_vars
SpecLocked == Init /\ [][NextLocked]_vars
SpecLabels == Init /\ [][NextLabels]_vars
SpecSpans == Init /\ [][NextSpans]_vars

\* the codec's specification draws the value in its initial state
InitVarintInputs ==
    /\ InitRot /\ InitFallback /\ InitTee /\ InitEnc /\ InitLocked
    /\ InitLabels /\ InitSpans
    /\ viV \in VarintInputs
    /\ viLast = ViLast("none", <<>>, 0, 0, <<>>)
SpecVarint == InitVarintInputs /\ [][NextVarint]_vars

(***************************************************************************)
(* rotated.File in a directory where earlier runs left files               *)
(***************************************************************************)
\* The file names rotate() is documented to try for a template at clock
\* value ts: number 0 is the plain timestamped name, number n in 1..10 has
\* the timestamp followed by "_" and n in hexadecimal.
RetryHex == <<"1", "2", "3", "4", "5", "6", "7", "8", "9", "a">>
Candidate(tpl, ts, n) ==
    LET u == <<TimeTokens[ts + 1]>> \o (IF n = 0 THEN <<>> ELSE <<"_", RetryHex[n]>>)
    IN IF tpl = <<"l", "#", ".", "t">>
       THEN <<"l">> \o u \o <<".", "t">>
       ELSE tpl \o <<"_">> \o u

\* The sets of candidate numbers already taken when the run starts: the
\* first k candidates, with at most one of them missing.
PriorSets == { (0..(k - 1)) \ {h} : k \in 0..11, h \in 0..11 }

\* the files of an earlier run, one byte 0 each, in candidate order
RECURSIVE PriorDisk(_, _, _)
PriorDisk(tpl, S, n) ==
    IF n > 10 THEN <<>>
    ELSE (IF n \in S THEN << [name |-> Candidate(tpl, 0, n), data |-> <<0>>] >>
          ELSE <<>>) \o PriorDisk(tpl, S, n + 1)

InitRotate ==
    /\ rfName = <<>>
    /\ rfF = NoFile
    /\ rfNbytes = 0
    /\ \E tpl \in Templates, S \in PriorSets : rfDisk = PriorDisk(tpl, S, 0)
    /\ rfClock = 0
    /\ rfCalls = 0
    /\ rfAccepted = <<>>
    /\ rfAllOk = TRUE
    /\ rfAllFit = TRUE
    /\ rfLast = RotLast("none", <<>>, 0, NoErr, FALSE, NoFile, 0, <<>>, FALSE)
    /\ InitFallback /\ InitTee /\ InitEnc /\ InitLocked
    /\ InitLabels /\ InitSpans /\ InitVarint

\* Writes of MaxSize bytes: every one of them that finds a file open with
\* bytes in it rotates.
NextRotate ==
    \/ \E name \in Templates : Create(name)
    \/ Tick
    \/ \E openErr \in {NoErr, ErrOpen} :
          /\ openErr # NoErr => NeedRotate(rfF, rfNbytes, Payload(0, MaxSize))
          /\ FileWrite(Payload(rfCalls + 1, MaxSize), NoErr, openErr, MaxSize)
    \/ FileClose(NoErr)

SpecRotate == InitRotate /\ [][NextRotate]_vars

(***************************************************************************)
(* Claims about the encoders                                               *)
(***************************************************************************)
\* the key of the event record of an operation: the JSON key byte, the
\* ProtoWriter field number, 0 for the console text
OpKey(kind, op) ==
    CASE kind = "json" ->
            (CASE op = "Labels" -> 76 [] op = "Message" -> 109 [] op = "Metric" -> 118
               [] op = "SpanStarted" -> 115 [] op = "SpanFinished" -> 102)
      [] kind = "proto" ->
            (CASE op = "Labels" -> 1 [] op = "Message" -> 3 [] op = "Metric" -> 6
               [] op = "SpanStarted" -> 4 [] op = "SpanFinished" -> 5)
      [] OTHER -> 0
LocKey(kind) == IF kind = "json" THEN 108 ELSE 2

\* one complete record and nothing else: one newline-terminated line, or
\* one length-prefixed frame
OneRecord(kind, p) ==
    IF kind = "proto" THEN ParseFrames(p).ok /\ Len(ParseFrames(p).frames) = 1
    ELSE LineCount(p) = 1 /\ p[Len(p)] = 10

\* the last operation answered nil
LastOk == encLast.ev.op # "none" /\ encLast.err = NoErr

\* the last operation carried a non-zero location its encoder had not marked
FirstSight ==
    /\ encKind \in {"json", "proto"}
    /\ encLast.ev.op \in {"Message", "SpanStarted"}
    /\ encLast.ev.loc # 0
    /\ encLast.ev.loc \notin encLast.seen

\* the last operation is a span event on a ConsoleWriter without Lspans
SpanDropped ==
    /\ encKind = "console"
    /\ encLast.ev.op \in {"SpanStarted", "SpanFinished"}
    /\ "Lspans" \notin encF

\* C1 as stated: every operation of an encoder whose sink answers nil calls
\* Write exactly once, with a payload that is exactly one complete record
\* (one newline-terminated line, or one length-prefixed frame).
C1_OneWriteOneRecord ==
    LastOk => /\ Len(encLast.writes) = 1
              /\ OneRecord(encKind, encLast.writes[1])

\* C1 amended: every operation of an encoder whose sink answers nil calls Write
\* at most once: not at all for a span event on a ConsoleWriter without
\* Lspans, exactly once otherwise.  The payload is made of whole records
\* (it ends with a line break, or is a sequence of whole frames); it holds the
\* record of the event, of the operation's kind, as its last record, preceded
\* in the same payload by the location record when the event carries a
\* non-zero location the encoder has not marked yet, and by nothing else.
C1_AtMostOneWriteWholeRecords ==
    LastOk =>
        IF SpanDropped THEN encLast.writes = <<>>
        ELSE /\ Len(encLast.writes) = 1
             /\ Complete(encKind, encLast.writes[1])
             /\ LET recs == Records(encKind, encLast.writes[1])
                    event == Rec("event", OpKey(encKind, encLast.ev.op),
                                 IF encKind = "console" \/ encLast.ev.op \notin {"Message", "SpanStarted"}
                                 THEN 0 ELSE encLast.ev.loc)
                IN IF FirstSight
                   THEN recs = <<Rec("location", LocKey(encKind), encLast.ev.loc), event>>
                   ELSE recs = <<event>>

\* C1 witness: a JSONWriter Message with a location seen for the first time
\* was written with a nil answer, in one Write that holds two records.
C1_Witness ==
    /\ LastOk
    /\ encKind = "json"
    /\ encLast.ev.op = "Message"
    /\ FirstSight
    /\ Len(encLast.writes) = 1
    /\ Len(Records(encKind, encLast.writes[1])) = 2

\* C2: of the payloads one JSONWriter or ProtoWriter handed to the sink's
\* Write (whatever the sink answered), for every non-zero location given in a
\* Message or SpanStarted event exactly one location record was handed over,
\* no event record referring to the location came before it, and no location
\* record was handed over for the zero location.
C2_OneLocationRecordFirst ==
    encKind \in {"json", "proto"} =>
        /\ \A l \in encGiven : encLocCount[l] = 1 /\ l \notin encEarly
        /\ \A l \in Locations \ encGiven : encLocCount[l] = 0

\* C2 witness: a ProtoWriter was given location 300 again after it had marked
\* it, and another location too.
C2_Witness ==
    /\ encKind = "proto"
    /\ encLast.ev.op \in {"Message", "SpanStarted"}
    /\ encLast.ev.loc = 300
    /\ 300 \in encLast.seen
    /\ encGiven = {1, 300}
    /\ encLocCount[300] = 1

(***************************************************************************)
(* Claims about LockedWriter under concurrent producers                    *)
(***************************************************************************)
\* the producers that are inside a call into the inner writer
Inside == {p \in Producers : lkPc[p] # "idle"}

IsPrefix(s, t) == Len(s) <= Len(t) /\ SubSeq(t, 1, Len(s)) = s

\* C6: with several producers calling one LockedWriter, at most one call into
\* the inner writer is in progress in every state, the producer inside holds
\* the mutex, and every payload the JSONWriter's sink was handed is, byte for
\* byte, the complete record of the one event of the call that wrote it.
C6_OneInsideWholeEvents ==
    /\ Cardinality(Inside) <= 1
    /\ \A p \in Inside : lkMu = p
    /\ \A i \in 1..Len(lkSink) : lkSink[i].payload = LkPayload(lkSink[i].ev)

\* C6 witness: both producers have written through the JSONWriter, and a
\* third call is half way through filling the shared array.
C6_Witness ==
    /\ lkInner = "json"
    /\ Len(lkSink) = 2
    /\ lkSink[1].ev.by # lkSink[2].ev.by
    /\ \E p \in Producers : lkPc[p] = "inner" /\ lkStep[p] = 1 /\ lkLen[p] > 0

\* C7: through Locked{Tee{A, B}}, B has received the events A has received, in
\* the same order, but for the event of the call in progress; A and B hold the
\* same sequence whenever no call is inside the TeeWriter; and the events of
\* each producer appear in the order of its calls.
C7_SameOrderAtBoth ==
    lkInner = "tee" =>
        /\ IsPrefix(lkB, lkA)
        /\ Len(lkA) - Len(lkB) <= 1
        /\ (\A p \in Producers : lkPc[p] # "inner") => lkA = lkB
        /\ \A i, j \in 1..Len(lkA) :
              (i < j /\ lkA[i].by = lkA[j].by) => lkA[i].seq < lkA[j].seq

\* C7 witness: A and B have both received three events, of p1, p2 and p1.
C7_Witness ==
    /\ lkInner = "tee"
    /\ Len(lkB) = 3
    /\ lkA = lkB
    /\ lkA[1].by = "p1"
    /\ lkA[2].by = "p2"
    /\ lkA[3].by = "p1"

(***************************************************************************)
(* Claims about the combinators                                            *)
(***************************************************************************)
Events(calls) == [i \in 1..Len(calls) |-> calls[i].ev]
Failed(call) == call.err # NoErr

\* C3 (SpecFallback): the fallback writer receives exactly the events for
\* which the primary returned an error: the same operations with the same
\* arguments, in the same order, each once, and no event the primary accepted.
C3_FallbackGetsFailedEvents ==
    Events(fbFallback) = Events(SelectSeq(fbPrimary, Failed))

\* the primary accepted a first event and refused a second one
C3_Witness ==
    /\ Len(fbPrimary) >= 2
    /\ fbPrimary[1].err = NoErr /\ fbPrimary[2].err # NoErr
    /\ fbPrimary[1].ev # fbPrimary[2].ev
    /\ Len(fbFallback) = 1 /\ fbFallback[1].ev = fbPrimary[2].ev

\* C4 (SpecFallback): every FallbackWriter operation returns the primary's
\* result: nil when it succeeded, its error when it failed, whatever the
\* fallback returned.
C4_ReturnsPrimaryResult ==
    /\ Len(fbRets) = Len(fbPrimary)
    /\ \A i \in 1..Len(fbRets) : fbRets[i] = fbPrimary[i].err

\* the primary failed, the fallback was called and failed too
C4_Witness ==
    /\ Len(fbRets) >= 2
    /\ fbPrimary[1].err = ErrPrimary /\ fbFallback[1].err = ErrFallback
    /\ fbRets[1] = ErrPrimary
    /\ fbPrimary[2].err = NoErr /\ fbRets[2] = NoErr

\* C5 (SpecTee): a TeeWriter operation calls every inner writer once with the
\* event, in list order, also after an inner writer failed, and returns the
\* error of the first inner writer that failed, nil when none did.
C5_TeeCallsAllReturnsFirstError ==
    teeLast.ev.op \in Ops =>
        LET calls == teeLast.calls
            bad == {i \in 1..Len(calls) : calls[i].err # NoErr}
        IN /\ Len(calls) = Len(teeWs)
           /\ \A i \in 1..Len(calls) : calls[i].w = teeWs[i] /\ calls[i].ev = teeLast.ev
           /\ teeLast.ret = IF bad = {} THEN NoErr
                            ELSE calls[CHOOSE i \in bad : \A j \in bad : i <= j].err

\* the first two inner writers both failed, and a third one was still called
C5_Witness ==
    /\ teeLast.ev.op \in Ops
    /\ Len(teeLast.calls) = 3
    /\ teeLast.calls[1].err # NoErr /\ teeLast.calls[2].err # NoErr
    /\ teeLast.calls[1].err # teeLast.calls[2].err
    /\ teeLast.calls[3].err = NoErr
    /\ teeLast.ret = teeLast.calls[1].err

(***************************************************************************)
(* Claims about rotated.File, checked under SpecRot                        *)
(***************************************************************************)
\* the number of bytes of payload k in a sequence of bytes
CountOf(data, k) == Cardinality({i \in 1..Len(data) : data[i] = k})

\* C8: File.Write rotates exactly when no file is open or when the bytes the
\* open file accepted since it was opened, plus len(p), exceed MaxSize (the
\* counter restarts at every rotation).  Stated for runs in which every Write
\* succeeded, where the bytes the open file accepted are its whole content.
C8_RotatesExactlyWhenFull ==
    (rfLast.op = "Write" /\ rfAllOk) =>
        (rfLast.rotated <=>
            (rfLast.fBefore = NoFile \/ rfLast.sizeBefore + Len(rfLast.p) > MaxSize))

\* C9: when every Write succeeded, each payload lies whole in exactly one
\* file, the files in creation order concatenate to the payloads in call
\* order, and N bytes followed by MaxSize-N+1 bytes make exactly two files.
C9_PayloadsWholeInOrder ==
    rfAllOk =>
        /\ Concat([i \in 1..Len(rfDisk) |-> rfDisk[i].data]) = rfAccepted
        /\ \A k \in 1..rfCalls :
              /\ Cardinality({i \in 1..Len(rfDisk) : k \in Range(rfDisk[i].data)}) = 1
              /\ \A i \in 1..Len(rfDisk) :
                    k \in Range(rfDisk[i].data) =>
                        CountOf(rfDisk[i].data, k) = CountOf(rfAccepted, k)
        /\ (rfCalls = 2 /\ Len(rfAccepted) = MaxSize + 1) => Len(rfDisk) = 2

C9_Witness ==
    /\ rfAllOk /\ rfCalls = 2 /\ Len(rfAccepted) = MaxSize + 1
    /\ rfLast.op = "Write" /\ rfLast.rotated /\ rfLast.fBefore # NoFile
    /\ Len(rfDisk) = 2 /\ rfDisk[1].data # <<>> /\ rfDisk[2].data # <<>>

\* C10: when every payload had len(p) <= MaxSize, no file holds more than
\* MaxSize bytes.
C10_NoFileOverMaxSize ==
    rfAllFit => \A i \in 1..Len(rfDisk) : Len(rfDisk[i].data) <= MaxSize

(***************************************************************************)
(* Claims about rotate(), checked under SpecRotate                         *)
(***************************************************************************)
\* the candidate numbers whose names are not on the disk
FreeCandidates(disk, tpl, ts) ==
    {n \in 0..10 : Candidate(tpl, ts, n) \notin DiskNames(disk)}

\* C11: a rotation tries the plain timestamped name and then the names with
\* the suffixes _1 .. _a; it opens the first of the eleven that does not
\* exist, answers the exists error when all of them exist, and answers
\* another open error at once; a file that exists is never opened again or
\* appended to.
C11_FirstFreeCandidate ==
    [][ (rfCalls' = rfCalls + 1 /\ rfLast'.rotated) =>
          LET free == FreeCandidates(rfDisk, rfName, rfClock)
              first == Candidate(rfName, rfClock,
                                 CHOOSE n \in free : \A m \in free : n <= m)
          IN /\ \A i \in 1..Len(rfDisk) : rfDisk'[i] = rfDisk[i]
             /\ IF free = {}
                THEN rfLast'.err = ErrExist /\ rfF' = NoFile /\ rfDisk' = rfDisk
                ELSE \/ rfLast'.err = ErrOpen /\ rfF' = NoFile /\ rfDisk' = rfDisk
                     \/ /\ rfLast'.err = NoErr
                        /\ rfF' = first
                        /\ rfDisk' = Append(rfDisk, [name |-> first,
                                                     data |-> rfLast'.p]) ]_vars

\* a Write has opened the tenth retry's name after eleven collisions less one
C11_Witness ==
    /\ rfLast.op = "Write" /\ rfLast.rotated /\ rfLast.err = NoErr
    /\ rfName # <<>>
    /\ rfF = Candidate(rfName, 0, 10)
    /\ Len(rfDisk) = 11

\* all eleven names exist: the Write answers the exists error
C11_WitnessAllTaken ==
    /\ rfLast.op = "Write" /\ rfLast.rotated /\ rfLast.err = ErrExist
    /\ rfF = NoFile

(***************************************************************************)
(* Claims about the error reports of rotated.File, checked under SpecRot   *)
(***************************************************************************)
\* the tag line of an error and the payload behind it
Report(tag, err, p) == << <<tag, err>>, p >>

\* what the last Write's own error is reported as
ErrorReport(last) ==
    IF last.err = NoErr THEN <<>>
    ELSE IF last.err = ErrWrite THEN Report("WRITE FAILED", last.err, last.p)
    ELSE Report("ROTATE FAILED", last.err, last.p)

\* C12 (as stated): on every error of a Write, the close of the old file
\* included, Fallback is written the error's tag line and then the payload p.
C12_TagAndPayloadOnEveryError ==
    rfLast.op = "Write" =>
        rfLast.fb = (IF rfLast.closeFailed
                     THEN Report("CLOSE FAILED", ErrClose, rfLast.p) ELSE <<>>)
                    \o ErrorReport(rfLast)

\* C12 (amended): a failed rotation and a failed write are reported with
\* their tag line and the payload p; a failed close of the old file is
\* reported with its tag line alone.
C12_PayloadOnRotateAndWriteErrors ==
    rfLast.op = "Write" =>
        rfLast.fb = (IF rfLast.closeFailed
                     THEN << <<"CLOSE FAILED", ErrClose>> >> ELSE <<>>)
                    \o ErrorReport(rfLast)

\* a Write whose close of the old file failed and whose open failed too
C12_Witness ==
    /\ rfLast.op = "Write" /\ rfLast.closeFailed /\ rfLast.err = ErrOpen
    /\ Len(rfLast.fb) = 3 /\ rfLast.fb[3] = rfLast.p

\* the files that hold a byte of the Write call numbered k
FilesWith(disk, k) == {i \in 1..Len(disk) : k \in Range(disk[i].data)}

\* C13: a close error of the old file is reported to Fallback and never
\* returned: the new file is opened, p is written to it and the Write
\* answers that write's result.  An open error makes the Write answer
\* (0, err) with no byte of p in any file.  A write error is answered with
\* the number of bytes the file took.
C13_CloseReportedOthersReturned ==
    rfLast.op = "Write" =>
        LET opened == rfLast.err \notin {ErrExist, ErrOpen}
        IN /\ rfLast.err # ErrClose
           /\ rfLast.closeFailed =>
                 /\ rfLast.fb # <<>>
                 /\ rfLast.fb[1] = <<"CLOSE FAILED", ErrClose>>
                 /\ opened =>
                       /\ rfF \notin {NoFile, rfLast.fBefore}
                       /\ FileData(rfDisk, rfF) = Take(rfLast.p, rfLast.n)
                       /\ rfLast.err = NoErr <=> rfLast.n = Len(rfLast.p)
           /\ ~opened =>
                 /\ rfLast.n = 0
                 /\ rfF = NoFile
                 /\ FilesWith(rfDisk, rfCalls) = {}
           /\ opened =>
                 /\ rfLast.n < Len(rfLast.p) <=> rfLast.err = ErrWrite
                 /\ CountOf(FileData(rfDisk, rfF), rfCalls) = rfLast.n

\* a Write whose close of the old file failed and that wrote p whole to the
\* file it opened
C13_Witness ==
    /\ rfLast.op = "Write" /\ rfLast.closeFailed /\ rfLast.err = NoErr
    /\ rfLast.n = Len(rfLast.p)
    /\ rfF \notin {NoFile, rfLast.fBefore}
    /\ FileData(rfDisk, rfF) = rfLast.p

(***************************************************************************)
(* Claims about Labels, checked under SpecLabels                           *)
(***************************************************************************)
\* what Get answers for a key whose last operation was h
Expected(h) ==
    IF h.op = "Set" THEN [v |-> h.v, ok |-> TRUE] ELSE [v |-> <<>>, ok |-> FALSE]

\* C14: Get(k) answers (v, true) when the last operation on k was Set(k, v)
\* and ("", false) when it was Del(k) or k was never set; a key whose
\* tombstone is in the list is not found.
C14_GetReflectsLastOperation ==
    /\ lbLast.op = "Get" => lbLast.res = Expected(lbLast.was)
    /\ \A k \in Keys :
          /\ Get(lbLs, k) = Expected(lbHist[k])
          /\ (<<"=">> \o k) \in Range(lbLs) => ~Get(lbLs, k).ok

\* Get of a key that was set and then deleted, its tombstone in the list
C14_Witness ==
    /\ lbLast.op = "Get" /\ lbLast.was = WasDel
    /\ (<<"=">> \o lbLast.k) \in Range(lbLs)
    /\ ~lbLast.res.ok
    /\ \E k \in Keys : lbHist[k].op = "Set" /\ lbHist[k].v # <<>>

\* the list after Del for the entries "=k" and Set for the others, in order
RECURSIVE ApplyEntries(_, _, _)
ApplyEntries(ls, b, i) ==
    IF i > Len(b) THEN ls
    ELSE LET e == b[i]
             eqs == {j \in 1..Len(e) : e[j] = "="}
             first == CHOOSE j \in eqs : \A m \in eqs : j <= m
         IN IF e[1] = "=" THEN ApplyEntries(Del(ls, Tail(e)), b, i + 1)
            ELSE IF eqs = {} THEN ApplyEntries(Set(ls, e, <<>>), b, i + 1)
            ELSE ApplyEntries(Set(ls, SubSeq(e, 1, first - 1),
                                  SubSeq(e, first + 1, Len(e))), b, i + 1)

\* C15: Merge(b), for b made of bare keys, key-value entries and tombstones,
\* does not fail and leaves the list as Del(k) for every "=k" and Set for
\* every other entry, applied in the order of b, leave it.
C15_MergeIsSetAndDelInOrder ==
    (lbLast.op = "Merge" /\ \A i \in 1..Len(lbLast.b) : lbLast.b[i] # <<>>) =>
        /\ ~lbLast.panicked
        /\ lbLs = ApplyEntries(lbLast.before, lbLast.b, 1)

\* the key of an entry of the list
KeyOf(l) == IF l[1] = "=" THEN Tail(l) ELSE SplitN2(l)[1]

\* C16: the list holds one entry, live or tombstone, for each key ever set,
\* in the order in which the keys were first set (so it never shrinks and a
\* Set after a Del finds the key's index again); after Set(a, 1), Set(b, 2),
\* Del(a) it is ["=a", "b=2"].
C16_OneEntryPerKeyInFirstOrder ==
    /\ Len(lbLs) = Len(lbFirst)
    /\ \A i \in 1..Len(lbLs) : KeyOf(lbLs[i]) = lbFirst[i]
    /\ \A i, j \in 1..Len(lbLs) : KeyOf(lbLs[i]) = KeyOf(lbLs[j]) => i = j
    /\ lbEx = Len(Example) => lbLs = << <<"=", "a">>, <<"b", "=", "2">> >>

\* a Set of a deleted key that stands first in a list of several keys
C16_Witness ==
    /\ lbLast.op = "Set" /\ lbLast.was = WasDel
    /\ Len(lbLs) >= 2 /\ lbFirst[1] = lbLast.k
    /\ lbLs[1] = lbLast.k \o <<"=">> \o lbLast.v /\ lbLast.v # <<>>

(***************************************************************************)
(* Claims about span IDs, checked under SpecSpans                          *)
(***************************************************************************)
\* C17: every span that Start or Spawn returns has an ID other than zero,
\* whatever rnd.Int63() returned, so that SafeID is zero for no span only.
C17_NoSpanWithZeroID ==
    /\ \A i \in 1..Len(spSpans) : SafeID(spSpans[i]) # SafeID(NilSpan)
    /\ ~spLast.s.nil => SafeID(spLast.s) # FromInt(0)

(***************************************************************************)
(* Claims about the encoders after a failed Write, checked under Spec      *)
(***************************************************************************)
\* what the operation of event ev yields on an encoder of the same kind and
\* flags, with the locations ls marked and nothing in its scratch buffer
Replay(kind, f, ls, ev) ==
    LET t == CHOOSE x \in MsgTimes : TRUE
        a == ev.rest
    IN IF kind = "console"
       THEN CASE ev.op = "Labels" -> ConsoleLabels(f, a[1], ev.sid, 0, t)
              [] ev.op = "Message" -> ConsoleMessage(f, a[1], ev.sid)
              [] ev.op = "Metric" -> ConsoleMetric(f, a[1], a[2], a[3], ev.sid, 0, t)
              [] ev.op = "SpanStarted" ->
                    ConsoleSpanStarted(<<>>, f, ev.sid, a[1], a[2], ev.loc)
              [] ev.op = "SpanFinished" -> ConsoleSpanFinished(<<>>, f, ev.sid, a[1], t)
       ELSE IF kind = "json"
       THEN CASE ev.op = "Labels" -> JSONLabels(<<>>, ls, a[1], ev.sid)
              [] ev.op = "Message" -> JSONMessage(<<>>, ls, a[1], ev.sid)
              [] ev.op = "Metric" -> JSONMetric(<<>>, ls, a[1], a[2], a[3], ev.sid)
              [] ev.op = "SpanStarted" ->
                    JSONSpanStarted(<<>>, ls, ev.sid, a[1], a[2], ev.loc)
              [] ev.op = "SpanFinished" -> JSONSpanFinished(<<>>, ls, ev.sid, a[1])
       ELSE CASE ev.op = "Labels" -> ProtoLabels(<<>>, ls, a[1], ev.sid)
              [] ev.op = "Message" -> ProtoMessage(<<>>, ls, a[1], ev.sid)
              [] ev.op = "Metric" -> ProtoMetric(<<>>, ls, a[1], a[2], a[3], ev.sid)
              [] ev.op = "SpanStarted" ->
                    ProtoSpanStarted(<<>>, ls, ev.sid, a[1], a[2], ev.loc)
              [] ev.op = "SpanFinished" -> ProtoSpanFinished(<<>>, ls, ev.sid, a[1])

\* C18: an operation answers what the sink's Write answered, and the
\* operation after one whose Write failed hands the sink the payload it
\* would hand it with an empty scratch buffer: no byte of the failed event.
C18_ErrorReturnedNextPayloadClean ==
    encLast.ev.op # "none" =>
        /\ encLast.err = encLast.sink
        /\ encLast.after = ErrSink =>
              encLast.writes = Replay(encKind, encF, encLast.seen, encLast.ev).writes

\* a JSONWriter operation that fails after one that failed, a payload written
C18_Witness ==
    /\ encKind = "json"
    /\ encLast.after = ErrSink /\ encLast.err = ErrSink
    /\ Len(encLast.writes) = 1 /\ encLast.writes[1] # <<>>

(***************************************************************************)
(* Claims about the varint codec, checked under SpecVarint                 *)
(***************************************************************************)
\* bit i (from 0) of a uint64, 0 from bit 64 on; bit r of a byte
BitOf(v, i) == IF i > 63 THEN 0 ELSE (v[(i \div 8) + 1] \div Pow2[(i % 8) + 1]) % 2
ByteBit(x, r) == (x \div Pow2[r + 1]) % 2

\* the number of 7-bit groups up to the highest bit set, one for zero
Groups(v) ==
    LET set == {i \in 0..63 : BitOf(v, i) = 1}
    IN IF set = {} THEN 1
       ELSE ((CHOOSE i \in set : \A j \in set : j <= i) \div 7) + 1

\* enc is the 7-bit-continuation encoding of v: group j of v in the low seven
\* bits of byte j, the high bit set on every byte but the last, and no more
\* bytes than v has groups
StandardVarint(enc, v) ==
    /\ Len(enc) = Groups(v)
    /\ \A j \in 1..Len(enc) :
          /\ ByteBit(enc[j], 7) = (IF j < Len(enc) THEN 1 ELSE 0)
          /\ \A r \in 0..6 : ByteBit(enc[j], r) = BitOf(v, 7 * (j - 1) + r)

\* C19: for every uint64 v, appendVarint appends the standard varint of v,
\* of varintSize(v) <= 10 bytes, every byte but the last with the
\* continuation bit; appendTagVarint appends the tag byte and then the same
\* bytes.
C19_StandardVarint ==
    /\ viLast.op = "varintSize" => viLast.n = Groups(viV) /\ viLast.n <= 10
    /\ viLast.op = "appendVarint" =>
          /\ HasPrefix(viLast.out, viLast.b)
          /\ StandardVarint(Drop(viLast.out, Len(viLast.b)), viV)
          /\ Len(viLast.out) - Len(viLast.b) = varintSize(viV)
          /\ varintSize(viV) <= 10
    /\ viLast.op = "appendTagVarint" =>
          /\ viLast.out = viLast.b \o <<viLast.t>> \o appendVarint(<<>>, viV)
          /\ StandardVarint(Drop(viLast.out, Len(viLast.b) + 1), viV)

\* the ten bytes of 2^64 - 1 appended to a buffer that holds bytes
C19_Witness ==
    /\ viLast.op = "appendVarint" /\ viV = AllOnes /\ viLast.b # <<>>
    /\ Len(viLast.out) = Len(viLast.b) + 10

(***************************************************************************)
(* Claims about NewTeeWriter, checked under SpecTee                        *)
(***************************************************************************)
\* the recording writers of a list of writers, from left to right, those
\* within tee writers at the place of the tee writer
RECURSIVE Leaves(_)
Leaves(ws) ==
    IF ws = <<>> THEN <<>>
    ELSE (IF Head(ws).kind = "leaf" THEN <<Head(ws).id>> ELSE Leaves(Head(ws).ws))
         \o Leaves(Tail(ws))

\* C20: no element of what NewTeeWriter returns is a tee writer, and its
\* elements are the leaf writers of the arguments from left to right.
C20_FlatInArgumentOrder ==
    teeBuilt =>
        /\ \A i \in 1..Len(teeWs) : teeWs[i].kind = "leaf"
        /\ Leaves(teeWs) = Leaves(teeGiven)
        /\ Len(teeWs) = Len(Leaves(teeGiven))

(***************************************************************************)
(* Claims about the frames of ProtoWriter, checked under Spec              *)
(***************************************************************************)
\* frame, the bytes behind an outer length, is one sub-message of the given
\* field number: a length-delimited tag, a length that is the number of
\* bytes left, and fields that end where the sub-message ends
OneSubMessage(frame, field) ==
    LET d == DecodeVarint(frame, 2, 1, 0)
    IN /\ frame[1] = Tag(field, 2)
       /\ d.ok
       /\ (d.next - 1) + d.val = Len(frame)
       /\ ParseFields(Drop(frame, d.next - 1)).ok

\* the text a Message renders, on its own
RenderedText(m) == ProtoMessageText(<<>>, m)

\* s ends with t
HasSuffix(s, t) == Len(s) >= Len(t) /\ SubSeq(s, Len(s) - Len(t) + 1, Len(s)) = t

\* C21: a payload of ProtoWriter is a sequence of frames whose outer length
\* is the number of bytes that follow it; each frame is one sub-message, of
\* field 2 for a location record and of the event's field for the event,
\* whose declared length is the size of its fields.  The frame of a Message
\* ends with the rendered text, also behind a location record.
C21_FramesSelfDelimiting ==
    (encKind = "proto" /\ encLast.ev.op # "none") =>
        /\ Len(encLast.writes) = 1
        /\ LET fr == ParseFrames(encLast.writes[1])
               n == Len(fr.frames)
           IN /\ fr.ok
              /\ n = (IF FirstSight THEN 2 ELSE 1)
              /\ OneSubMessage(fr.frames[n], OpKey("proto", encLast.ev.op))
              /\ n = 2 => OneSubMessage(fr.frames[1], LocKey("proto"))
              /\ encLast.ev.op = "Message" =>
                    HasSuffix(fr.frames[n], RenderedText(encLast.ev.rest[1]))

\* a Message with printf arguments and a span, behind the record of its
\* location in the same payload
C21_Witness ==
    /\ encKind = "proto" /\ encLast.ev.op = "Message" /\ FirstSight
    /\ encLast.ev.rest[1].args # NilArgs
    /\ encLast.ev.sid # ZeroID
    /\ Len(ParseFrames(encLast.writes[1]).frames) = 2

(***************************************************************************)
(* C22.  Between two events, that is in every state of the encoder after   *)
(* an operation has returned, the scratch buffer w.buf of the encoder has  *)
(* length zero, whichever operation ran last and whether or not its Write  *)
(* failed.                                                                 *)
(***************************************************************************)
C22_ScratchEmptyBetweenEvents == Len(encBuf) = 0

(***************************************************************************)
(* C23.  JSONWriter and ProtoWriter mark a location in w.ls when they      *)
(* build its location record, before the Write, and never unmark it.  If   *)
(* the Write that carries the record of L fails, L stays marked: no later  *)
(* operation of the encoder hands over a location record for L, and a      *)
(* later event that refers to L is written as the event record alone.      *)
(***************************************************************************)
C23_FailedLocationNotResent ==
    encKind \in {"json", "proto"} =>
        /\ encLast.seen \subseteq encLs
        /\ FirstSight => encLast.ev.loc \in encLs
        /\ encFailed \subseteq encLs
        /\ \A l \in encFailed : encLocCount[l] = 1
        /\ ( /\ encLast.ev.op \in {"Message", "SpanStarted"}
             /\ encLast.ev.loc \in encFailed
             /\ encLast.ev.loc \in encLast.seen ) =>
               /\ Len(encLast.writes) = 1
               /\ Records(encKind, encLast.writes[1])
                    = <<Rec("event", OpKey(encKind, encLast.ev.op), encLast.ev.loc)>>

\* C23 witness: the Write with the location record of 300 failed, and a
\* later SpanStarted of the same JSONWriter at 300 was written with a nil
\* answer.
C23_Witness ==
    /\ encKind = "json"
    /\ encLast.ev.op = "SpanStarted"
    /\ encLast.ev.loc = 300
    /\ 300 \in encFailed
    /\ 300 \in encLast.seen
    /\ encLast.err = NoErr
    /\ encLocCount[300] = 1

(***************************************************************************)
(* C24.  rotated.File never writes to a closed or absent file: after Close *)
(* and after a rotation whose open failed the sink holds no open file; a   *)
(* Write that finds no open file rotates first, and the bytes it writes go *)
(* to the file opened in that call; no Write changes a file other than the *)
(* one the sink holds afterwards; Close on a sink with no open file        *)
(* returns nil and changes nothing, so a second Close is harmless.         *)
(***************************************************************************)
RotateFailed == rfLast.op = "Write" /\ rfLast.err \in {ErrOpen, ErrExist}

NoOpenFileAfter ==
    /\ rfLast.op = "Close" => rfF = NoFile
    /\ RotateFailed => rfF = NoFile /\ rfLast.rotated /\ rfLast.n = 0
    /\ (rfLast.op = "Write" /\ rfLast.fBefore = NoFile) =>
          /\ rfLast.rotated
          /\ ~RotateFailed =>
                /\ rfF \in DiskNames(rfDisk)
                /\ FileData(rfDisk, rfF) = Take(rfLast.p, rfLast.n)
    /\ (rfLast.op = "Write" /\ ~RotateFailed) => rfF \in DiskNames(rfDisk)
    /\ (rfLast.op = "Close" /\ rfLast.fBefore = NoFile) => rfLast.err = NoErr

OnlyTheOpenFileChanges ==
    /\ \A i \in 1..Len(rfDisk) :
          /\ rfDisk'[i].name = rfDisk[i].name
          /\ rfDisk'[i].data # rfDisk[i].data => rfDisk'[i].name = rfF'
    /\ (rfF = NoFile /\ rfLast'.op = "Close" /\ rfLast'.fBefore = NoFile) =>
          /\ rfLast'.err = NoErr
          /\ UNCHANGED <<rfName, rfF, rfNbytes, rfDisk, rfAccepted>>

C24_NoWriteWithoutOpenFile == []NoOpenFileAfter /\ [][OnlyTheOpenFileChanges]_vars

\* C24 witness: the sink was closed, the Write after it opened a second file
\* and wrote there, and the first file still holds the first call's bytes only.
C24_Witness ==
    /\ rfLast.op = "Write"
    /\ rfLast.fBefore = NoFile
    /\ rfLast.err = NoErr
    /\ rfCalls = 2
    /\ Len(rfDisk) = 2
    /\ rfF = rfDisk[2].name
    /\ Range(rfDisk[1].data) = {1}
    /\ Range(rfDisk[2].data) = {2}

\* C24 witness of the second half: Close was called on a sink whose last
\* rotation could not open a file.
C24_WitnessCloseAfterFailedOpen ==
    /\ rfLast.op = "Close"
    /\ rfLast.fBefore = NoFile
    /\ rfCalls >= 1
    /\ rfAllOk = FALSE
    /\ rfDisk = <<>>

====
